---------------------------- MODULE Spec2Model ----------------------------
(***************************************************************************)
(* Model of the rtm math core: vector4 / quaternion / 3x3 and 3x4 matrix   *)
(* primitives and the experimental VQM transform (vqmd.h).                 *)
(*                                                                         *)
(* Every function of the library is pure, so the state machine is a call   *)
(* recorder: from the idle state one API call is made with arguments drawn *)
(* from bounded input sets, and the state keeps the call (op), its         *)
(* arguments (args) and what it returned (ret).                            *)
(*                                                                         *)
(* Scalars are exact extended rationals <<n, d>> in lowest terms, d >= 0:  *)
(* d > 0 is the finite value n/d, <<1,0>> is +Inf, <<-1,0>> is -Inf and    *)
(* <<0,0>> is NaN.  Arithmetic follows IEEE-754 on the non-finite values   *)
(* and is exact (no rounding) on the finite ones.                          *)
(***************************************************************************)
EXTENDS Integers, Sequences, FiniteSets, TLC

VARIABLES
    op,                     \* name of the API call that was made, "idle" before
    args,                   \* record of the call's arguments
    ret,                    \* value the call returned
    RTM_HAS_ASSERT_CHECKS   \* build configuration: are RTM_ASSERT checks compiled in

vars == <<op, args, ret, RTM_HAS_ASSERT_CHECKS>>

---------------------------------------------------------------------------
(* Scalars                                                                 *)

RECURSIVE GCD(_, _)
GCD(a, b) == IF b = 0 THEN a ELSE GCD(b, a % b)

Abs(n) == IF n < 0 THEN -n ELSE n

Sgn(n) == IF n < 0 THEN -1 ELSE IF n > 0 THEN 1 ELSE 0

\* <<n, d>> with d >= 0 brought to lowest terms (non-finite: d = 0, n = sign)
Norm(n, d) ==
    IF d = 0 THEN <<Sgn(n), 0>>
    ELSE LET g == GCD(Abs(n), d) IN <<n \div g, d \div g>>

Rat(n) == <<n, 1>>
Frac(n, d) == Norm(n, d)

NaN == <<0, 0>>
PosInf == <<1, 0>>
NegInf == <<-1, 0>>

scalar_is_finite(x) == x[2] # 0

\* x + y
scalar_add(x, y) ==
    IF x[2] = 1 /\ y[2] = 1 THEN <<x[1] + y[1], 1>>
    ELSE IF x[2] = 0 \/ y[2] = 0
    THEN IF x[2] = 0 /\ y[2] = 0
         THEN (IF x = y THEN x ELSE NaN)
         ELSE (IF x[2] = 0 THEN x ELSE y)
    ELSE LET g == GCD(x[2], y[2])
         IN Norm(x[1] * (y[2] \div g) + y[1] * (x[2] \div g), (x[2] \div g) * y[2])

\* x * y
scalar_mul(x, y) ==
    IF x[2] = 1 /\ y[2] = 1 THEN <<x[1] * y[1], 1>>
    ELSE IF x[2] = 0 \/ y[2] = 0
    THEN <<Sgn(x[1]) * Sgn(y[1]), 0>>
    ELSE IF x[1] = 0 \/ y[1] = 0 THEN <<0, 1>>
    ELSE LET g1 == GCD(Abs(x[1]), y[2])
             g2 == GCD(Abs(y[1]), x[2])
         IN <<(x[1] \div g1) * (y[1] \div g2), (x[2] \div g2) * (y[2] \div g1)>>

\* -x
scalar_neg(x) == <<-x[1], x[2]>>

\* x - y
scalar_sub(x, y) == scalar_add(x, scalar_neg(y))

\* 1.0 / x
scalar_reciprocal(x) ==
    IF x[2] = 0 THEN (IF x[1] = 0 THEN NaN ELSE Rat(0))
    ELSE IF x[1] = 0 THEN PosInf
    ELSE IF x[1] < 0 THEN <<-x[2], -x[1]>> ELSE <<x[2], x[1]>>

\* operator <, <= and >= on two doubles; every comparison with a NaN is false
scalar_compare(rel, a, b) ==
    LET lt(p, q) == IF p[2] = 0 /\ q[2] = 0 THEN p[1] < q[1] ELSE p[1] * q[2] < q[1] * p[2]
    IN IF a = NaN \/ b = NaN THEN FALSE
       ELSE CASE rel = "less_than" -> lt(a, b)
              [] rel = "less_equal" -> ~lt(b, a)
              [] rel = "greater_equal" -> ~lt(a, b)

---------------------------------------------------------------------------
(* vector4: a 4-tuple <<x, y, z, w>> of scalars                            *)

vector_set(x, y, z, w) == <<x, y, z, w>>
vector_set3(x, y, z) == <<x, y, z, Rat(0)>>
vector_splat(s) == <<s, s, s, s>>
vector_zero == <<Rat(0), Rat(0), Rat(0), Rat(0)>>

vector_get_x(v) == v[1]
vector_get_y(v) == v[2]
vector_get_z(v) == v[3]
vector_get_w(v) == v[4]

vector_set_x(v, s) == <<s, v[2], v[3], v[4]>>
vector_set_y(v, s) == <<v[1], s, v[3], v[4]>>
vector_set_z(v, s) == <<v[1], v[2], s, v[4]>>

vector_add(lhs, rhs) ==
    <<scalar_add(lhs[1], rhs[1]), scalar_add(lhs[2], rhs[2]),
      scalar_add(lhs[3], rhs[3]), scalar_add(lhs[4], rhs[4])>>
vector_sub(lhs, rhs) ==
    <<scalar_sub(lhs[1], rhs[1]), scalar_sub(lhs[2], rhs[2]),
      scalar_sub(lhs[3], rhs[3]), scalar_sub(lhs[4], rhs[4])>>
vector_mul(lhs, rhs) ==
    <<scalar_mul(lhs[1], rhs[1]), scalar_mul(lhs[2], rhs[2]),
      scalar_mul(lhs[3], rhs[3]), scalar_mul(lhs[4], rhs[4])>>
vector_mul_s(lhs, s) == vector_mul(lhs, vector_splat(s))
vector_neg(input) == vector_mul_s(input, Rat(-1))

\* v2 + (v0 * v1)
vector_mul_add(v0, v1, v2) == vector_add(vector_mul(v0, v1), v2)
\* v2 - (v0 * v1)
vector_neg_mul_sub(v0, v1, v2) == vector_sub(v2, vector_mul(v0, v1))

vector_dot(lhs, rhs) ==
    scalar_add(scalar_add(scalar_add(scalar_mul(lhs[1], rhs[1]), scalar_mul(lhs[2], rhs[2])),
                          scalar_mul(lhs[3], rhs[3])), scalar_mul(lhs[4], rhs[4]))

vector_is_finite(v) ==
    scalar_is_finite(v[1]) /\ scalar_is_finite(v[2]) /\ scalar_is_finite(v[3]) /\ scalar_is_finite(v[4])

\* vector_is_finite3 that looks at the w lane as well
vector_is_finite3_all_lanes(v) ==
    scalar_is_finite(v[1]) /\ scalar_is_finite(v[2]) /\ scalar_is_finite(v[3]) /\ scalar_is_finite(v[4])

vector_is_finite3(v) ==
    scalar_is_finite(v[1]) /\ scalar_is_finite(v[2]) /\ scalar_is_finite(v[3])

\* mix4 selectors: x, y, z, w index input0 and a, b, c, d index input1
mix4 == [x |-> 0, y |-> 1, z |-> 2, w |-> 3, a |-> 4, b |-> 5, c |-> 6, d |-> 7]

is_mix_xyzw(c) == c < 4

vector_get_component(v, c) == v[(c % 4) + 1]

\* the per-lane path of vector_mix<comp0, comp1, comp2, comp3>(input0, input1)
vector_mix(c0, c1, c2, c3, input0, input1) ==
    <<IF is_mix_xyzw(c0) THEN vector_get_component(input0, c0) ELSE vector_get_component(input1, c0),
      IF is_mix_xyzw(c1) THEN vector_get_component(input0, c1) ELSE vector_get_component(input1, c1),
      IF is_mix_xyzw(c2) THEN vector_get_component(input0, c2) ELSE vector_get_component(input1, c2),
      IF is_mix_xyzw(c3) THEN vector_get_component(input0, c3) ELSE vector_get_component(input1, c3)>>

vector_dup_x(v) == vector_mix(mix4.x, mix4.x, mix4.x, mix4.x, v, v)
vector_dup_y(v) == vector_mix(mix4.y, mix4.y, mix4.y, mix4.y, v, v)
vector_dup_z(v) == vector_mix(mix4.z, mix4.z, mix4.z, mix4.z, v, v)

is_mix_abcd(c) == c >= 4

\* _MM_SHUFFLE(fp3, fp2, fp1, fp0): the 8-bit immediate of a shuffle
MM_SHUFFLE(fp3, fp2, fp1, fp0) == fp3 * 64 + fp2 * 16 + fp1 * 4 + fp0

\* _mm_shuffle_ps(a, b, imm): lanes 0, 1 picked from a, lanes 2, 3 from b
mm_shuffle_ps(a, b, imm) ==
    <<a[(imm % 4) + 1], a[((imm \div 4) % 4) + 1],
      b[((imm \div 16) % 4) + 1], b[((imm \div 64) % 4) + 1]>>

\* _mm_unpacklo_ps(a, b)
mm_unpacklo_ps(a, b) == <<a[1], b[1], a[2], b[2]>>

\* _mm_unpackhi_ps(a, b)
mm_unpackhi_ps(a, b) == <<a[3], b[3], a[4], b[4]>>

\* vector_mix under SSE2 with the operands of the "first two from input 1,
\* second two from input 0" shuffle in the order of the case above it
vector_mix_sse2_shuffle_operands_not_swapped(c0, c1, c2, c3, input0, input1) ==
    LET imm == MM_SHUFFLE(c3 % 4, c2 % 4, c1 % 4, c0 % 4)
    IN IF is_mix_xyzw(c0) /\ is_mix_xyzw(c1) /\ is_mix_xyzw(c2) /\ is_mix_xyzw(c3)
           THEN mm_shuffle_ps(input0, input0, imm)
       ELSE IF is_mix_abcd(c0) /\ is_mix_abcd(c1) /\ is_mix_abcd(c2) /\ is_mix_abcd(c3)
           THEN mm_shuffle_ps(input1, input1, imm)
       ELSE IF is_mix_xyzw(c0) /\ is_mix_xyzw(c1) /\ is_mix_abcd(c2) /\ is_mix_abcd(c3)
           THEN mm_shuffle_ps(input0, input1, imm)
       ELSE IF is_mix_abcd(c0) /\ is_mix_abcd(c1) /\ is_mix_xyzw(c2) /\ is_mix_xyzw(c3)
           THEN mm_shuffle_ps(input0, input1, imm)
       ELSE IF c0 = mix4.x /\ c1 = mix4.a /\ c2 = mix4.y /\ c3 = mix4.b
           THEN mm_unpacklo_ps(input0, input1)
       ELSE IF c0 = mix4.a /\ c1 = mix4.x /\ c2 = mix4.b /\ c3 = mix4.y
           THEN mm_unpacklo_ps(input1, input0)
       ELSE IF c0 = mix4.z /\ c1 = mix4.c /\ c2 = mix4.w /\ c3 = mix4.d
           THEN mm_unpackhi_ps(input0, input1)
       ELSE IF c0 = mix4.c /\ c1 = mix4.z /\ c2 = mix4.d /\ c3 = mix4.w
           THEN mm_unpackhi_ps(input1, input0)
       ELSE vector_mix(c0, c1, c2, c3, input0, input1)

\* vector_mix<comp0, comp1, comp2, comp3>(input0, input1) as compiled with
\* RTM_SSE2_INTRINSICS: the specialised paths, then the per-lane path
vector_mix_sse2(c0, c1, c2, c3, input0, input1) ==
    LET imm == MM_SHUFFLE(c3 % 4, c2 % 4, c1 % 4, c0 % 4)
    IN IF is_mix_xyzw(c0) /\ is_mix_xyzw(c1) /\ is_mix_xyzw(c2) /\ is_mix_xyzw(c3)
           THEN mm_shuffle_ps(input0, input0, imm)
       ELSE IF is_mix_abcd(c0) /\ is_mix_abcd(c1) /\ is_mix_abcd(c2) /\ is_mix_abcd(c3)
           THEN mm_shuffle_ps(input1, input1, imm)
       ELSE IF is_mix_xyzw(c0) /\ is_mix_xyzw(c1) /\ is_mix_abcd(c2) /\ is_mix_abcd(c3)
           THEN mm_shuffle_ps(input0, input1, imm)
       ELSE IF is_mix_abcd(c0) /\ is_mix_abcd(c1) /\ is_mix_xyzw(c2) /\ is_mix_xyzw(c3)
           THEN mm_shuffle_ps(input1, input0, imm)
       ELSE IF c0 = mix4.x /\ c1 = mix4.a /\ c2 = mix4.y /\ c3 = mix4.b
           THEN mm_unpacklo_ps(input0, input1)
       ELSE IF c0 = mix4.a /\ c1 = mix4.x /\ c2 = mix4.b /\ c3 = mix4.y
           THEN mm_unpacklo_ps(input1, input0)
       ELSE IF c0 = mix4.z /\ c1 = mix4.c /\ c2 = mix4.w /\ c3 = mix4.d
           THEN mm_unpackhi_ps(input0, input1)
       ELSE IF c0 = mix4.c /\ c1 = mix4.z /\ c2 = mix4.d /\ c3 = mix4.w
           THEN mm_unpackhi_ps(input1, input0)
       ELSE vector_mix(c0, c1, c2, c3, input0, input1)

vector_cross3(lhs, rhs) ==
    vector_set3(scalar_sub(scalar_mul(lhs[2], rhs[3]), scalar_mul(lhs[3], rhs[2])),
                scalar_sub(scalar_mul(lhs[3], rhs[1]), scalar_mul(lhs[1], rhs[3])),
                scalar_sub(scalar_mul(lhs[1], rhs[2]), scalar_mul(lhs[2], rhs[1])))

vector_dot3(lhs, rhs) ==
    scalar_add(scalar_add(scalar_mul(lhs[1], rhs[1]), scalar_mul(lhs[2], rhs[2])),
               scalar_mul(lhs[3], rhs[3]))

\* 1.0 / sqrt(x), on the values whose root is rational
scalar_sqrt_reciprocal(x) ==
    LET IntRoot(k) == CHOOSE r \in 0..k : r * r = k
    IN IF x = NaN \/ x[1] < 0 THEN NaN
       ELSE IF x = PosInf THEN Rat(0)
       ELSE IF x[1] = 0 THEN PosInf
       ELSE <<IntRoot(x[2]), IntRoot(x[1])>>

vector_length_squared3(input) == vector_dot3(input, input)

\* vector_normalize3 with the comparison len_sq > threshold
vector_normalize3_strict_compare(input, fallback, threshold) ==
    LET len_sq == vector_length_squared3(input)
    IN IF scalar_compare("less_than", threshold, len_sq)
           THEN vector_mul_s(input, scalar_sqrt_reciprocal(len_sq))
           ELSE fallback

vector_normalize3(input, fallback, threshold) ==
    LET len_sq == vector_length_squared3(input)
    IN IF scalar_compare("greater_equal", len_sq, threshold)
           THEN vector_mul_s(input, scalar_sqrt_reciprocal(len_sq))
           ELSE fallback

---------------------------------------------------------------------------
(* Quaternions: <<x, y, z, w>>                                             *)

quat_identity == <<Rat(0), Rat(0), Rat(0), Rat(1)>>

quat_conjugate(q) == <<scalar_neg(q[1]), scalar_neg(q[2]), scalar_neg(q[3]), q[4]>>

\* quat_mul(lhs, rhs): lhs is applied first, then rhs
quat_mul(l, r) ==
    LET S(a, b, c, d) == scalar_add(scalar_add(scalar_add(a, b), c), d)
        M(a, b) == scalar_mul(a, b)
        N(a, b) == scalar_neg(scalar_mul(a, b))
    IN <<S(M(r[4], l[1]), M(r[1], l[4]), M(r[2], l[3]), N(r[3], l[2])),
         S(M(r[4], l[2]), N(r[1], l[3]), M(r[2], l[4]), M(r[3], l[1])),
         S(M(r[4], l[3]), M(r[1], l[2]), N(r[2], l[1]), M(r[3], l[4])),
         S(M(r[4], l[4]), N(r[1], l[1]), N(r[2], l[2]), N(r[3], l[3]))>>

\* the sandwich product q * v * q^-1 on the pure quaternion (v.xyz, 0)
quat_mul_vector3(v, q) ==
    quat_mul(quat_mul(quat_conjugate(q), <<v[1], v[2], v[3], Rat(0)>>), q)

quat_is_finite(q) == vector_is_finite(q)


---------------------------------------------------------------------------
(* matrix3x3: [x_axis, y_axis, z_axis], rows are vector4                   *)

matrix_set3(x_axis, y_axis, z_axis) ==
    [x_axis |-> x_axis, y_axis |-> y_axis, z_axis |-> z_axis]

matrix_identity3 ==
    matrix_set3(vector_set(Rat(1), Rat(0), Rat(0), Rat(0)),
                vector_set(Rat(0), Rat(1), Rat(0), Rat(0)),
                vector_set(Rat(0), Rat(0), Rat(1), Rat(0)))

\* matrix_mul(lhs, rhs) on matrix3x3
matrix_mul3x3(lhs, rhs) ==
    LET row(l) ==
            LET tmp0 == vector_mul(vector_dup_x(l), rhs.x_axis)
                tmp1 == vector_mul_add(vector_dup_y(l), rhs.y_axis, tmp0)
            IN vector_mul_add(vector_dup_z(l), rhs.z_axis, tmp1)
    IN matrix_set3(row(lhs.x_axis), row(lhs.y_axis), row(lhs.z_axis))

\* matrix_mul_vector3(vec3, mtx) on matrix3x3: vec3 as a row vector times mtx
matrix_mul_vector3_3x3(vec3, mtx) ==
    LET tmp0 == vector_mul(vector_dup_x(vec3), mtx.x_axis)
        tmp1 == vector_mul_add(vector_dup_y(vec3), mtx.y_axis, tmp0)
        tmp2 == vector_mul(vector_dup_z(vec3), mtx.z_axis)
    IN vector_add(tmp1, tmp2)

\* determinant of the 3x3 block
matrix_determinant3x3(m) == vector_dot3(m.x_axis, vector_cross3(m.y_axis, m.z_axis))

\* matrix_inverse(input) on matrix3x3: adjugate times the reciprocal determinant
matrix_inverse3x3(input) ==
    LET c0 == vector_cross3(input.y_axis, input.z_axis)
        c1 == vector_cross3(input.z_axis, input.x_axis)
        c2 == vector_cross3(input.x_axis, input.y_axis)
        inv_det == scalar_reciprocal(vector_dot3(input.x_axis, c0))
    IN matrix_set3(vector_mul_s(vector_set3(c0[1], c1[1], c2[1]), inv_det),
                   vector_mul_s(vector_set3(c0[2], c1[2], c2[2]), inv_det),
                   vector_mul_s(vector_set3(c0[3], c1[3], c2[3]), inv_det))

---------------------------------------------------------------------------
(* matrix3x4 / matrix4x4: [x_axis, y_axis, z_axis, w_axis]                 *)

matrix_set(x_axis, y_axis, z_axis, w_axis) ==
    [x_axis |-> x_axis, y_axis |-> y_axis, z_axis |-> z_axis, w_axis |-> w_axis]

matrix_from_translation(translation) ==
    matrix_set(vector_set(Rat(1), Rat(0), Rat(0), Rat(0)),
               vector_set(Rat(0), Rat(1), Rat(0), Rat(0)),
               vector_set(Rat(0), Rat(0), Rat(1), Rat(0)),
               vector_set(translation[1], translation[2], translation[3], Rat(1)))

matrix_from_qvv(quat, translation, scale) ==
    LET x2 == scalar_add(quat[1], quat[1])
        y2 == scalar_add(quat[2], quat[2])
        z2 == scalar_add(quat[3], quat[3])
        xx == scalar_mul(quat[1], x2)
        xy == scalar_mul(quat[1], y2)
        xz == scalar_mul(quat[1], z2)
        yy == scalar_mul(quat[2], y2)
        yz == scalar_mul(quat[2], z2)
        zz == scalar_mul(quat[3], z2)
        wx == scalar_mul(quat[4], x2)
        wy == scalar_mul(quat[4], y2)
        wz == scalar_mul(quat[4], z2)
        x_axis == vector_mul_s(vector_set(scalar_sub(Rat(1), scalar_add(yy, zz)), scalar_add(xy, wz),
                                          scalar_sub(xz, wy), Rat(0)), scale[1])
        y_axis == vector_mul_s(vector_set(scalar_sub(xy, wz), scalar_sub(Rat(1), scalar_add(xx, zz)),
                                          scalar_add(yz, wx), Rat(0)), scale[2])
        z_axis == vector_mul_s(vector_set(scalar_add(xz, wy), scalar_sub(yz, wx),
                                          scalar_sub(Rat(1), scalar_add(xx, yy)), Rat(0)), scale[3])
        w_axis == vector_set(translation[1], translation[2], translation[3], Rat(1))
    IN matrix_set(x_axis, y_axis, z_axis, w_axis)


\* matrix_mul on matrix3x4 without the rhs translation row added
matrix_mul_rhs_translation_dropped(lhs, rhs) ==
    LET row(l) ==
            LET tmp0 == vector_mul(vector_dup_x(l), rhs.x_axis)
                tmp1 == vector_mul_add(vector_dup_y(l), rhs.y_axis, tmp0)
            IN vector_mul_add(vector_dup_z(l), rhs.z_axis, tmp1)
    IN matrix_set(row(lhs.x_axis), row(lhs.y_axis), row(lhs.z_axis), row(lhs.w_axis))

\* matrix_mul on matrix3x4 adding the translation row of lhs instead of that of rhs
matrix_mul_lhs_translation_added(lhs, rhs) ==
    LET row(l) ==
            LET tmp0 == vector_mul(vector_dup_x(l), rhs.x_axis)
                tmp1 == vector_mul_add(vector_dup_y(l), rhs.y_axis, tmp0)
            IN vector_mul_add(vector_dup_z(l), rhs.z_axis, tmp1)
    IN matrix_set(row(lhs.x_axis), row(lhs.y_axis), row(lhs.z_axis),
                  vector_add(lhs.w_axis, row(lhs.w_axis)))

\* matrix_mul(lhs, rhs) on matrix3x4
matrix_mul(lhs, rhs) ==
    LET row(l) ==
            LET tmp0 == vector_mul(vector_dup_x(l), rhs.x_axis)
                tmp1 == vector_mul_add(vector_dup_y(l), rhs.y_axis, tmp0)
            IN vector_mul_add(vector_dup_z(l), rhs.z_axis, tmp1)
    IN matrix_set(row(lhs.x_axis), row(lhs.y_axis), row(lhs.z_axis),
                  vector_add(rhs.w_axis, row(lhs.w_axis)))

matrix_mul_point3(point, mtx) ==
    LET tmp0a == vector_mul(vector_dup_x(point), mtx.x_axis)
        tmp0 == vector_mul_add(vector_dup_y(point), mtx.y_axis, tmp0a)
        tmp1 == vector_mul_add(vector_dup_z(point), mtx.z_axis, mtx.w_axis)
    IN vector_add(tmp0, tmp1)

\* matrix_mul_vector3(vec3, mtx) on matrix3x4: the translation row is not applied
matrix_mul_vector3(vec3, mtx) ==
    LET tmp0 == vector_mul(vector_dup_x(vec3), mtx.x_axis)
        tmp1 == vector_mul_add(vector_dup_y(vec3), mtx.y_axis, tmp0)
        tmp2 == vector_mul(vector_dup_z(vec3), mtx.z_axis)
    IN vector_add(tmp1, tmp2)


\* matrix_transpose with the last two rows exchanged
matrix_transpose_rows_swapped(input) ==
    LET v00_v01_v10_v11 == vector_mix(mix4.x, mix4.y, mix4.a, mix4.b, input.x_axis, input.y_axis)
        v02_v03_v12_v13 == vector_mix(mix4.z, mix4.w, mix4.c, mix4.d, input.x_axis, input.y_axis)
        v20_v21_v30_v31 == vector_mix(mix4.x, mix4.y, mix4.a, mix4.b, input.z_axis, input.w_axis)
        v22_v23_v32_v33 == vector_mix(mix4.z, mix4.w, mix4.c, mix4.d, input.z_axis, input.w_axis)
    IN matrix_set(vector_mix(mix4.x, mix4.z, mix4.a, mix4.c, v00_v01_v10_v11, v20_v21_v30_v31),
                  vector_mix(mix4.y, mix4.w, mix4.b, mix4.d, v00_v01_v10_v11, v20_v21_v30_v31),
                  vector_mix(mix4.y, mix4.w, mix4.b, mix4.d, v02_v03_v12_v13, v22_v23_v32_v33),
                  vector_mix(mix4.x, mix4.z, mix4.a, mix4.c, v02_v03_v12_v13, v22_v23_v32_v33))

\* matrix_transpose that transposes the upper 3x3 only and keeps the fourth
\* lanes and the fourth row where they were
matrix_transpose_upper3x3_only(input) ==
    matrix_set(vector_set(input.x_axis[1], input.y_axis[1], input.z_axis[1], input.x_axis[4]),
               vector_set(input.x_axis[2], input.y_axis[2], input.z_axis[2], input.y_axis[4]),
               vector_set(input.x_axis[3], input.y_axis[3], input.z_axis[3], input.z_axis[4]),
               input.w_axis)

\* matrix_transpose(input) on matrix3x4: a generic 4x4 transpose
matrix_transpose(input) ==
    LET v00_v01_v10_v11 == vector_mix(mix4.x, mix4.y, mix4.a, mix4.b, input.x_axis, input.y_axis)
        v02_v03_v12_v13 == vector_mix(mix4.z, mix4.w, mix4.c, mix4.d, input.x_axis, input.y_axis)
        v20_v21_v30_v31 == vector_mix(mix4.x, mix4.y, mix4.a, mix4.b, input.z_axis, input.w_axis)
        v22_v23_v32_v33 == vector_mix(mix4.z, mix4.w, mix4.c, mix4.d, input.z_axis, input.w_axis)
    IN matrix_set(vector_mix(mix4.x, mix4.z, mix4.a, mix4.c, v00_v01_v10_v11, v20_v21_v30_v31),
                  vector_mix(mix4.y, mix4.w, mix4.b, mix4.d, v00_v01_v10_v11, v20_v21_v30_v31),
                  vector_mix(mix4.x, mix4.z, mix4.a, mix4.c, v02_v03_v12_v13, v22_v23_v32_v33),
                  vector_mix(mix4.y, mix4.w, mix4.b, mix4.d, v02_v03_v12_v13, v22_v23_v32_v33))

\* matrix_inverse, first and second pass: the 2x2 sub-determinants d0, d1, d2 of
\* the rows tx, ty, tz, tw of the transposed input
matrix_inverse_sub_determinants(tx, ty, tz, tw) ==
    LET
        \* first pass
        a00 == vector_mix(mix4.x, mix4.x, mix4.y, mix4.y, tz, tz)
        a01 == vector_mix(mix4.x, mix4.x, mix4.y, mix4.y, tx, tx)
        a02 == vector_mix(mix4.x, mix4.z, mix4.a, mix4.c, tz, tx)
        a10 == vector_mix(mix4.z, mix4.w, mix4.z, mix4.w, tw, tw)
        a11 == vector_mix(mix4.z, mix4.w, mix4.z, mix4.w, ty, ty)
        a12 == vector_mix(mix4.y, mix4.w, mix4.b, mix4.d, tw, ty)
        d0a == vector_mul(a00, a10)
        d1a == vector_mul(a01, a11)
        d2a == vector_mul(a02, a12)
        \* second pass
        b00 == vector_mix(mix4.z, mix4.w, mix4.z, mix4.w, tz, tz)
        b01 == vector_mix(mix4.z, mix4.w, mix4.z, mix4.w, tx, tx)
        b02 == vector_mix(mix4.y, mix4.w, mix4.b, mix4.d, tz, tx)
        b10 == vector_mix(mix4.x, mix4.x, mix4.y, mix4.y, tw, tw)
        b11 == vector_mix(mix4.x, mix4.x, mix4.y, mix4.y, ty, ty)
        b12 == vector_mix(mix4.x, mix4.z, mix4.a, mix4.c, tw, ty)
        d0 == vector_neg_mul_sub(b00, b10, d0a)
        d1 == vector_neg_mul_sub(b01, b11, d1a)
        d2 == vector_neg_mul_sub(b02, b12, d2a)
    IN <<d0, d1, d2>>

\* matrix_inverse, third to fifth pass: the cofactor vectors c0 .. c7
matrix_inverse_cofactors(tx, ty, tz, tw, d0, d1, d2) ==
    LET
        \* third pass
        e00 == vector_mix(mix4.y, mix4.z, mix4.x, mix4.y, ty, ty)
        e01 == vector_mix(mix4.z, mix4.x, mix4.y, mix4.x, tx, tx)
        e02 == vector_mix(mix4.y, mix4.z, mix4.x, mix4.y, tw, tw)
        e03 == vector_mix(mix4.z, mix4.x, mix4.y, mix4.x, tz, tz)
        e10 == vector_mix(mix4.b, mix4.y, mix4.w, mix4.x, d0, d2)
        e11 == vector_mix(mix4.w, mix4.b, mix4.y, mix4.z, d0, d2)
        e12 == vector_mix(mix4.d, mix4.y, mix4.w, mix4.x, d1, d2)
        e13 == vector_mix(mix4.w, mix4.d, mix4.y, mix4.z, d1, d2)
        c0a == vector_mul(e00, e10)
        c2a == vector_mul(e01, e11)
        c4a == vector_mul(e02, e12)
        c6a == vector_mul(e03, e13)
        \* fourth pass
        f00 == vector_mix(mix4.z, mix4.w, mix4.y, mix4.z, ty, ty)
        f01 == vector_mix(mix4.w, mix4.z, mix4.w, mix4.y, tx, tx)
        f02 == vector_mix(mix4.z, mix4.w, mix4.y, mix4.z, tw, tw)
        f03 == vector_mix(mix4.w, mix4.z, mix4.w, mix4.y, tz, tz)
        f10 == vector_mix(mix4.w, mix4.x, mix4.y, mix4.a, d0, d2)
        f11 == vector_mix(mix4.z, mix4.y, mix4.a, mix4.x, d0, d2)
        f12 == vector_mix(mix4.w, mix4.x, mix4.y, mix4.c, d1, d2)
        f13 == vector_mix(mix4.z, mix4.y, mix4.c, mix4.x, d1, d2)
        c0b == vector_neg_mul_sub(f00, f10, c0a)
        c2b == vector_neg_mul_sub(f01, f11, c2a)
        c4b == vector_neg_mul_sub(f02, f12, c4a)
        c6b == vector_neg_mul_sub(f03, f13, c6a)
        \* fifth pass
        g00 == vector_mix(mix4.w, mix4.x, mix4.w, mix4.x, ty, ty)
        g01 == vector_mix(mix4.y, mix4.w, mix4.x, mix4.z, tx, tx)
        g02 == vector_mix(mix4.w, mix4.x, mix4.w, mix4.x, tw, tw)
        g03 == vector_mix(mix4.y, mix4.w, mix4.x, mix4.z, tz, tz)
        g10 == vector_mix(mix4.z, mix4.b, mix4.a, mix4.z, d0, d2)
        g11 == vector_mix(mix4.b, mix4.x, mix4.w, mix4.a, d0, d2)
        g12 == vector_mix(mix4.z, mix4.d, mix4.c, mix4.z, d1, d2)
        g13 == vector_mix(mix4.d, mix4.x, mix4.w, mix4.c, d1, d2)
        c1 == vector_neg_mul_sub(g00, g10, c0b)
        c0 == vector_mul_add(g00, g10, c0b)
        c3 == vector_mul_add(g01, g11, c2b)
        c2 == vector_neg_mul_sub(g01, g11, c2b)
        c5 == vector_neg_mul_sub(g02, g12, c4b)
        c4 == vector_mul_add(g02, g12, c4b)
        c7 == vector_mul_add(g03, g13, c6b)
        c6 == vector_neg_mul_sub(g03, g13, c6b)
    IN <<c0, c1, c2, c3, c4, c5, c6, c7>>

\* matrix_inverse, the end: the cofactor rows divided by the determinant
matrix_inverse_scaled(c, tx, asserts) ==
    LET x_axis0 == vector_mix(mix4.x, mix4.b, mix4.z, mix4.d, c[1], c[2])
        y_axis0 == vector_mix(mix4.x, mix4.b, mix4.z, mix4.d, c[3], c[4])
        z_axis0 == vector_mix(mix4.x, mix4.b, mix4.z, mix4.d, c[5], c[6])
        w_axis0 == vector_mix(mix4.x, mix4.b, mix4.z, mix4.d, c[7], c[8])
        det == vector_dot(x_axis0, tx)
        inv_det == vector_splat(scalar_reciprocal(det))
        w_axis == vector_mul(w_axis0, inv_det)
    IN matrix_set(vector_mul(x_axis0, inv_det), vector_mul(y_axis0, inv_det),
                  vector_mul(z_axis0, inv_det),
                  IF asserts
                  THEN vector_set(vector_get_x(w_axis), vector_get_y(w_axis), vector_get_z(w_axis), Rat(1))
                  ELSE w_axis)

\* matrix_inverse(input) on matrix3x4: the generic cofactor inverse; asserts is
\* RTM_HAS_ASSERT_CHECKS, under which the w lane of w_axis is forced to 1.0
matrix_inverse(input, asserts) ==
    LET input_transposed == matrix_transpose(input)
        d == matrix_inverse_sub_determinants(input_transposed.x_axis, input_transposed.y_axis,
                                             input_transposed.z_axis, input_transposed.w_axis)
    IN matrix_inverse_scaled(
           matrix_inverse_cofactors(input_transposed.x_axis, input_transposed.y_axis,
                                    input_transposed.z_axis, input_transposed.w_axis, d[1], d[2], d[3]),
           input_transposed.x_axis, asserts)

\* matrix_get_axis whose default case returns the w_axis
matrix_get_axis_default_w(input, axis) ==
    CASE axis = 1 -> input.x_axis
      [] axis = 2 -> input.y_axis
      [] axis = 3 -> input.z_axis
      [] OTHER -> input.w_axis

\* axis4 x, y, z, w are 1, 2, 3, 4
matrix_get_axis(input, axis) ==
    CASE axis = 1 -> input.x_axis
      [] axis = 2 -> input.y_axis
      [] axis = 3 -> input.z_axis
      [] axis = 4 -> input.w_axis
      [] OTHER -> input.x_axis

\* matrix_remove_scale normalizing with a threshold of 0: a zero axis is divided by its length
matrix_remove_scale_no_threshold(input) ==
    [x_axis |-> vector_normalize3(input.x_axis, input.x_axis, Rat(0)),
     y_axis |-> vector_normalize3(input.y_axis, input.y_axis, Rat(0)),
     z_axis |-> vector_normalize3(input.z_axis, input.z_axis, Rat(0)),
     w_axis |-> input.w_axis]

\* vector_normalize3 is called without a threshold: its default, 1.0e-8, applies
matrix_remove_scale(input) ==
    [x_axis |-> vector_normalize3(input.x_axis, input.x_axis, Frac(1, 100000000)),
     y_axis |-> vector_normalize3(input.y_axis, input.y_axis, Frac(1, 100000000)),
     z_axis |-> vector_normalize3(input.z_axis, input.z_axis, Frac(1, 100000000)),
     w_axis |-> input.w_axis]

\* matrix_caster<src>::operator dst for casts that keep the precision (the
\* float and the double specialisations have the same rows); a matrix3x3 is
\* [x_axis, y_axis, z_axis], matrix3x4 and matrix4x4 add w_axis
matrix_caster(src, dst, mtx) ==
    CASE dst = "matrix3x3" ->
             [x_axis |-> mtx.x_axis, y_axis |-> mtx.y_axis, z_axis |-> mtx.z_axis]
      [] dst = "matrix3x4" ->
             [x_axis |-> mtx.x_axis, y_axis |-> mtx.y_axis, z_axis |-> mtx.z_axis,
              w_axis |-> IF src = "matrix3x3"
                         THEN vector_set(Rat(0), Rat(0), Rat(0), Rat(1))
                         ELSE mtx.w_axis]
      [] dst = "matrix4x4" ->
             [x_axis |-> mtx.x_axis, y_axis |-> mtx.y_axis, z_axis |-> mtx.z_axis,
              w_axis |-> IF src = "matrix3x3" THEN mtx.z_axis ELSE mtx.w_axis]

\* the RTM_ASSERTs of the casts to matrix3x4 from matrix3x3 and from matrix4x4
matrix_caster_asserts(src, dst, mtx) ==
    /\ dst = "matrix3x4"
    /\ src \in {"matrix3x3", "matrix4x4"}
    /\ \/ vector_get_w(mtx.x_axis) # Rat(0)
       \/ vector_get_w(mtx.y_axis) # Rat(0)
       \/ vector_get_w(mtx.z_axis) # Rat(0)

---------------------------------------------------------------------------
(* VQM transform: [rotation, translation, x_axis, y_axis, z_axis]          *)

vqm_identity ==
    [rotation |-> quat_identity,
     translation |-> vector_zero,
     x_axis |-> vector_set(Rat(1), Rat(0), Rat(0), Rat(0)),
     y_axis |-> vector_set(Rat(0), Rat(1), Rat(0), Rat(0)),
     z_axis |-> vector_set(Rat(0), Rat(0), Rat(1), Rat(0))]

vqm_set(translation, rotation, scale) ==
    LET zero == vector_zero
    IN [rotation |-> rotation,
        translation |-> translation,
        x_axis |-> vector_set_x(zero, scale[1]),
        y_axis |-> vector_set_y(zero, scale[2]),
        z_axis |-> vector_set_z(zero, scale[3])]


\* vqm_mul with the left translation rotated but not scaled/sheared by the right operand
vqm_mul_translation_not_scaled(lhs, rhs) ==
    LET inv_lhs_rotation == quat_conjugate(lhs.rotation)
        rhs_scale_shear == matrix_set3(quat_mul_vector3(rhs.x_axis, inv_lhs_rotation),
                                       quat_mul_vector3(rhs.y_axis, inv_lhs_rotation),
                                       quat_mul_vector3(rhs.z_axis, inv_lhs_rotation))
        lhs_scale_shear == matrix_set3(quat_mul_vector3(lhs.x_axis, lhs.rotation),
                                       quat_mul_vector3(lhs.y_axis, lhs.rotation),
                                       quat_mul_vector3(lhs.z_axis, lhs.rotation))
        scale_shear == matrix_mul3x3(lhs_scale_shear, rhs_scale_shear)
    IN [rotation |-> quat_mul(lhs.rotation, rhs.rotation),
        translation |-> vector_add(quat_mul_vector3(lhs.translation, rhs.rotation), rhs.translation),
        x_axis |-> scale_shear.x_axis,
        y_axis |-> scale_shear.y_axis,
        z_axis |-> scale_shear.z_axis]

\* vqm_mul with the two scale/shear matrices rotated by rhs.rotation and its
\* inverse instead of lhs.rotation and its inverse
vqm_mul_scale_shear_rotated_by_rhs(lhs, rhs) ==
    LET inv_rhs_rotation == quat_conjugate(rhs.rotation)
        lhs_scale_shear0 == matrix_set3(lhs.x_axis, lhs.y_axis, lhs.z_axis)
        rhs_scale_shear0 == matrix_set3(rhs.x_axis, rhs.y_axis, rhs.z_axis)
        rotation == quat_mul(lhs.rotation, rhs.rotation)
        translation == vector_add(quat_mul_vector3(matrix_mul_vector3_3x3(lhs.translation, rhs_scale_shear0),
                                                   rhs.rotation), rhs.translation)
        rhs_scale_shear == matrix_set3(quat_mul_vector3(rhs_scale_shear0.x_axis, inv_rhs_rotation),
                                       quat_mul_vector3(rhs_scale_shear0.y_axis, inv_rhs_rotation),
                                       quat_mul_vector3(rhs_scale_shear0.z_axis, inv_rhs_rotation))
        lhs_scale_shear == matrix_set3(quat_mul_vector3(lhs_scale_shear0.x_axis, rhs.rotation),
                                       quat_mul_vector3(lhs_scale_shear0.y_axis, rhs.rotation),
                                       quat_mul_vector3(lhs_scale_shear0.z_axis, rhs.rotation))
        scale_shear == matrix_mul3x3(lhs_scale_shear, rhs_scale_shear)
    IN [rotation |-> rotation,
        translation |-> translation,
        x_axis |-> scale_shear.x_axis,
        y_axis |-> scale_shear.y_axis,
        z_axis |-> scale_shear.z_axis]

\* vqm_mul with the translation rotated by lhs.rotation instead of rhs.rotation
vqm_mul_translation_rotated_by_lhs(lhs, rhs) ==
    LET inv_lhs_rotation == quat_conjugate(lhs.rotation)
        lhs_scale_shear0 == matrix_set3(lhs.x_axis, lhs.y_axis, lhs.z_axis)
        rhs_scale_shear0 == matrix_set3(rhs.x_axis, rhs.y_axis, rhs.z_axis)
        rhs_scale_shear == matrix_set3(quat_mul_vector3(rhs_scale_shear0.x_axis, inv_lhs_rotation),
                                       quat_mul_vector3(rhs_scale_shear0.y_axis, inv_lhs_rotation),
                                       quat_mul_vector3(rhs_scale_shear0.z_axis, inv_lhs_rotation))
        lhs_scale_shear == matrix_set3(quat_mul_vector3(lhs_scale_shear0.x_axis, lhs.rotation),
                                       quat_mul_vector3(lhs_scale_shear0.y_axis, lhs.rotation),
                                       quat_mul_vector3(lhs_scale_shear0.z_axis, lhs.rotation))
        scale_shear == matrix_mul3x3(lhs_scale_shear, rhs_scale_shear)
    IN [rotation |-> quat_mul(lhs.rotation, rhs.rotation),
        translation |-> vector_add(quat_mul_vector3(matrix_mul_vector3_3x3(lhs.translation, rhs_scale_shear0),
                                                    lhs.rotation), rhs.translation),
        x_axis |-> scale_shear.x_axis,
        y_axis |-> scale_shear.y_axis,
        z_axis |-> scale_shear.z_axis]

\* vqm_mul without the rhs translation added
vqm_mul_rhs_translation_dropped(lhs, rhs) ==
    LET inv_lhs_rotation == quat_conjugate(lhs.rotation)
        lhs_scale_shear0 == matrix_set3(lhs.x_axis, lhs.y_axis, lhs.z_axis)
        rhs_scale_shear0 == matrix_set3(rhs.x_axis, rhs.y_axis, rhs.z_axis)
        rhs_scale_shear == matrix_set3(quat_mul_vector3(rhs_scale_shear0.x_axis, inv_lhs_rotation),
                                       quat_mul_vector3(rhs_scale_shear0.y_axis, inv_lhs_rotation),
                                       quat_mul_vector3(rhs_scale_shear0.z_axis, inv_lhs_rotation))
        lhs_scale_shear == matrix_set3(quat_mul_vector3(lhs_scale_shear0.x_axis, lhs.rotation),
                                       quat_mul_vector3(lhs_scale_shear0.y_axis, lhs.rotation),
                                       quat_mul_vector3(lhs_scale_shear0.z_axis, lhs.rotation))
        scale_shear == matrix_mul3x3(lhs_scale_shear, rhs_scale_shear)
    IN [rotation |-> quat_mul(lhs.rotation, rhs.rotation),
        translation |-> quat_mul_vector3(matrix_mul_vector3_3x3(lhs.translation, rhs_scale_shear0),
                                         rhs.rotation),
        x_axis |-> scale_shear.x_axis,
        y_axis |-> scale_shear.y_axis,
        z_axis |-> scale_shear.z_axis]

\* vqm_mul with the operands of the rotation product exchanged
vqm_mul_rotation_operands_swapped(lhs, rhs) ==
    LET inv_lhs_rotation == quat_conjugate(lhs.rotation)
        lhs_scale_shear0 == matrix_set3(lhs.x_axis, lhs.y_axis, lhs.z_axis)
        rhs_scale_shear0 == matrix_set3(rhs.x_axis, rhs.y_axis, rhs.z_axis)
        rhs_scale_shear == matrix_set3(quat_mul_vector3(rhs_scale_shear0.x_axis, inv_lhs_rotation),
                                       quat_mul_vector3(rhs_scale_shear0.y_axis, inv_lhs_rotation),
                                       quat_mul_vector3(rhs_scale_shear0.z_axis, inv_lhs_rotation))
        lhs_scale_shear == matrix_set3(quat_mul_vector3(lhs_scale_shear0.x_axis, lhs.rotation),
                                       quat_mul_vector3(lhs_scale_shear0.y_axis, lhs.rotation),
                                       quat_mul_vector3(lhs_scale_shear0.z_axis, lhs.rotation))
        scale_shear == matrix_mul3x3(lhs_scale_shear, rhs_scale_shear)
    IN [rotation |-> quat_mul(rhs.rotation, lhs.rotation),
        translation |-> vector_add(quat_mul_vector3(matrix_mul_vector3_3x3(lhs.translation, rhs_scale_shear0),
                                                    rhs.rotation), rhs.translation),
        x_axis |-> scale_shear.x_axis,
        y_axis |-> scale_shear.y_axis,
        z_axis |-> scale_shear.z_axis]

vqm_mul(lhs, rhs) ==
    LET inv_lhs_rotation == quat_conjugate(lhs.rotation)
        lhs_scale_shear0 == matrix_set3(lhs.x_axis, lhs.y_axis, lhs.z_axis)
        rhs_scale_shear0 == matrix_set3(rhs.x_axis, rhs.y_axis, rhs.z_axis)
        rotation == quat_mul(lhs.rotation, rhs.rotation)
        translation == vector_add(quat_mul_vector3(matrix_mul_vector3_3x3(lhs.translation, rhs_scale_shear0),
                                                   rhs.rotation), rhs.translation)
        rhs_scale_shear == matrix_set3(quat_mul_vector3(rhs_scale_shear0.x_axis, inv_lhs_rotation),
                                       quat_mul_vector3(rhs_scale_shear0.y_axis, inv_lhs_rotation),
                                       quat_mul_vector3(rhs_scale_shear0.z_axis, inv_lhs_rotation))
        lhs_scale_shear == matrix_set3(quat_mul_vector3(lhs_scale_shear0.x_axis, lhs.rotation),
                                       quat_mul_vector3(lhs_scale_shear0.y_axis, lhs.rotation),
                                       quat_mul_vector3(lhs_scale_shear0.z_axis, lhs.rotation))
        scale_shear == matrix_mul3x3(lhs_scale_shear, rhs_scale_shear)
    IN [rotation |-> rotation,
        translation |-> translation,
        x_axis |-> scale_shear.x_axis,
        y_axis |-> scale_shear.y_axis,
        z_axis |-> scale_shear.z_axis]


\* vqm_mul_point3 without the translation: what vqm_mul_vector3 computes
vqm_mul_point3_translation_dropped(point, vqm) ==
    LET scale_shear == matrix_set3(vqm.x_axis, vqm.y_axis, vqm.z_axis)
    IN quat_mul_vector3(matrix_mul_vector3_3x3(point, scale_shear), vqm.rotation)

vqm_mul_point3(point, vqm) ==
    LET scale_shear == matrix_set3(vqm.x_axis, vqm.y_axis, vqm.z_axis)
    IN vector_add(quat_mul_vector3(matrix_mul_vector3_3x3(point, scale_shear), vqm.rotation),
                  vqm.translation)

vqm_mul_vector3(vec3, vqm) ==
    LET scale_shear == matrix_set3(vqm.x_axis, vqm.y_axis, vqm.z_axis)
    IN quat_mul_vector3(matrix_mul_vector3_3x3(vec3, scale_shear), vqm.rotation)


\* vqm_inverse without the left multiplication by the inverse rotation matrix
vqm_inverse_rotation_mtx_skipped(input) ==
    LET scale_shear == matrix_set3(input.x_axis, input.y_axis, input.z_axis)
        inv_scale_shear == matrix_inverse3x3(scale_shear)
        inv_rotation == quat_conjugate(input.rotation)
    IN [rotation |-> inv_rotation,
        translation |-> matrix_mul_vector3_3x3(quat_mul_vector3(vector_neg(input.translation), inv_rotation),
                                               inv_scale_shear),
        x_axis |-> quat_mul_vector3(inv_scale_shear.x_axis, input.rotation),
        y_axis |-> quat_mul_vector3(inv_scale_shear.y_axis, input.rotation),
        z_axis |-> quat_mul_vector3(inv_scale_shear.z_axis, input.rotation)]

\* vqm_inverse with the translation not negated
vqm_inverse_translation_not_negated(input) ==
    LET scale_shear == matrix_set3(input.x_axis, input.y_axis, input.z_axis)
        inv_scale_shear == matrix_inverse3x3(scale_shear)
        inv_rotation == quat_conjugate(input.rotation)
        inv_rotated_scale_shear0 ==
            matrix_set3(quat_mul_vector3(inv_scale_shear.x_axis, input.rotation),
                        quat_mul_vector3(inv_scale_shear.y_axis, input.rotation),
                        quat_mul_vector3(inv_scale_shear.z_axis, input.rotation))
        inv_rotation_mtx ==
            matrix_set3(quat_mul_vector3(matrix_identity3.x_axis, inv_rotation),
                        quat_mul_vector3(matrix_identity3.y_axis, inv_rotation),
                        quat_mul_vector3(matrix_identity3.z_axis, inv_rotation))
        inv_rotated_scale_shear == matrix_mul3x3(inv_rotation_mtx, inv_rotated_scale_shear0)
    IN [rotation |-> inv_rotation,
        translation |-> matrix_mul_vector3_3x3(quat_mul_vector3(input.translation, inv_rotation),
                                               inv_scale_shear),
        x_axis |-> inv_rotated_scale_shear.x_axis,
        y_axis |-> inv_rotated_scale_shear.y_axis,
        z_axis |-> inv_rotated_scale_shear.z_axis]

vqm_inverse(input) ==
    LET scale_shear == matrix_set3(input.x_axis, input.y_axis, input.z_axis)
        inv_scale_shear == matrix_inverse3x3(scale_shear)
        inv_rotation == quat_conjugate(input.rotation)
        inv_rotated_scale_shear0 ==
            matrix_set3(quat_mul_vector3(inv_scale_shear.x_axis, input.rotation),
                        quat_mul_vector3(inv_scale_shear.y_axis, input.rotation),
                        quat_mul_vector3(inv_scale_shear.z_axis, input.rotation))
        inv_rotation_mtx ==
            matrix_set3(quat_mul_vector3(matrix_identity3.x_axis, inv_rotation),
                        quat_mul_vector3(matrix_identity3.y_axis, inv_rotation),
                        quat_mul_vector3(matrix_identity3.z_axis, inv_rotation))
        inv_rotated_scale_shear == matrix_mul3x3(inv_rotation_mtx, inv_rotated_scale_shear0)
    IN [rotation |-> inv_rotation,
        translation |-> matrix_mul_vector3_3x3(quat_mul_vector3(vector_neg(input.translation), inv_rotation),
                                               inv_scale_shear),
        x_axis |-> inv_rotated_scale_shear.x_axis,
        y_axis |-> inv_rotated_scale_shear.y_axis,
        z_axis |-> inv_rotated_scale_shear.z_axis]


\* vqm_to_matrix with the translation row rotated like the three axes
vqm_to_matrix_translation_rotated(input) ==
    LET result == matrix_set(input.x_axis, input.y_axis, input.z_axis, input.translation)
    IN matrix_set(quat_mul_vector3(result.x_axis, input.rotation),
                  quat_mul_vector3(result.y_axis, input.rotation),
                  quat_mul_vector3(result.z_axis, input.rotation),
                  quat_mul_vector3(result.w_axis, input.rotation))

vqm_to_matrix(input) ==
    LET result == matrix_set(input.x_axis, input.y_axis, input.z_axis, input.translation)
    IN matrix_set(quat_mul_vector3(result.x_axis, input.rotation),
                  quat_mul_vector3(result.y_axis, input.rotation),
                  quat_mul_vector3(result.z_axis, input.rotation),
                  result.w_axis)


\* quat_normalize(input): input multiplied by the reciprocal of its length
quat_normalize(input) ==
    vector_mul_s(input, scalar_sqrt_reciprocal(vector_dot(input, input)))

\* qvv_normalize that hands the translation on as a 3D vector, w lane cleared
qvv_normalize_translation_w_cleared(input) ==
    [rotation |-> quat_normalize(input.rotation),
     x_axis |-> input.x_axis,
     y_axis |-> input.y_axis,
     z_axis |-> input.z_axis,
     translation |-> vector_set3(input.translation[1], input.translation[2], input.translation[3])]

qvv_normalize(input) ==
    [rotation |-> quat_normalize(input.rotation),
     x_axis |-> input.x_axis,
     y_axis |-> input.y_axis,
     z_axis |-> input.z_axis,
     translation |-> input.translation]

\* qvv_is_finite testing all four lanes of the translation
qvv_is_finite_translation_all_lanes(input) ==
    /\ quat_is_finite(input.rotation)
    /\ vector_is_finite(input.translation)
    /\ vector_is_finite3(input.x_axis)
    /\ vector_is_finite3(input.y_axis)
    /\ vector_is_finite3(input.z_axis)

qvv_is_finite(input) ==
    /\ quat_is_finite(input.rotation)
    /\ vector_is_finite3(input.translation)
    /\ vector_is_finite3(input.x_axis)
    /\ vector_is_finite3(input.y_axis)
    /\ vector_is_finite3(input.z_axis)

vqm_get_rotation(input) == input.rotation

\* vqm_set_rotation that also puts the identity scale back on the three axes
vqm_set_rotation_axes_reset(qvm, rotation) ==
    vqm_set(qvm.translation, rotation, vector_splat(Rat(1)))

vqm_set_rotation(qvm, rotation) ==
    LET result == qvm
    IN [result EXCEPT !.rotation = rotation]

vqm_get_translation(input) == input.translation

vqm_set_translation(qvm, translation) ==
    LET result == qvm
    IN [result EXCEPT !.translation = translation]

vqm_get_scale(input) ==
    LET xyxy == vector_mix(mix4.x, mix4.b, mix4.x, mix4.b, input.x_axis, input.y_axis)
    IN vector_mix(mix4.x, mix4.y, mix4.c, mix4.d, xyxy, input.z_axis)

\* vqm_set_scale that rebuilds the three axes from the scale, as vqm_set does
vqm_set_scale_axes_rebuilt(qvm, scale) ==
    [qvm EXCEPT !.x_axis = vector_set_x(vector_zero, vector_get_x(scale)),
                !.y_axis = vector_set_y(vector_zero, vector_get_y(scale)),
                !.z_axis = vector_set_z(vector_zero, vector_get_z(scale))]

vqm_set_scale(qvm, scale) ==
    LET result == qvm
    IN [result EXCEPT !.x_axis = vector_set_x(qvm.x_axis, vector_get_x(scale)),
                      !.y_axis = vector_set_y(qvm.y_axis, vector_get_y(scale)),
                      !.z_axis = vector_set_z(qvm.z_axis, vector_get_z(scale))]

---------------------------------------------------------------------------
(* Inputs                                                                  *)

\* largest translation multiple and largest point multiple that are drawn
MaxTrans == 1
MaxPoint == 1

qI == quat_identity
qX == <<Rat(1), Rat(0), Rat(0), Rat(0)>>
qH == <<Frac(1, 2), Frac(1, 2), Frac(1, 2), Frac(1, 2)>>
qZ == <<Rat(0), Rat(0), Frac(3, 5), Frac(4, 5)>>
qG == <<Frac(1, 3), Frac(2, 3), Rat(0), Frac(2, 3)>>

\* unit quaternions with rational components
Rotations == {qI, qX, qH, qZ, qG}

quat_is_normalized(q) == vector_dot(q, q) = Rat(1)

Translations == { vector_set3(Rat(k), Rat(2 * k), Rat(-3 * k)) : k \in 0..MaxTrans }

Points == { vector_set3(Rat(12 * k), Rat(0), Rat(-13 * k)) : k \in 0..MaxPoint }
          \cup { vector_set3(Rat(k), Rat(-2), Frac(1, 2)) : k \in 1..MaxPoint }

sPos == vector_set3(Rat(2), Rat(3), Rat(4))
sNeg1 == vector_set3(Rat(-2), Rat(3), Rat(4))
sNeg2 == vector_set3(Rat(-2), Rat(-3), Rat(4))
sNeg3 == vector_set3(Rat(-2), Rat(-3), Rat(-4))
sZero1 == vector_set3(Rat(0), Rat(3), Rat(4))
sZero2 == vector_set3(Rat(0), Rat(0), Rat(4))
sZero3 == vector_set3(Rat(0), Rat(0), Rat(0))

\* the scales of test_vqm.cpp: positive, 1-3 negative axes, 1-3 zero axes
Scales == {sPos, sNeg1, sNeg2, sNeg3, sZero1, sZero2, sZero3}

\* transforms without shear, as vqm_set builds them
SetTransforms == { vqm_set(t, q, s) : t \in Translations, q \in Rotations, s \in Scales }

\* transforms with shear: products of vqm_set transforms with different rotations
\* (the second one singular), and one aggregate with integer shear
ShearedTransforms ==
    { vqm_mul(vqm_set(vector_set3(Rat(1), Rat(2), Rat(-3)), qZ, sPos),
              vqm_set(vector_set3(Rat(0), Rat(1), Rat(0)), qH, sNeg1)),
      vqm_mul(vqm_set(vector_set3(Rat(2), Rat(0), Rat(1)), qG, sZero1),
              vqm_set(vector_set3(Rat(1), Rat(2), Rat(-3)), qX, sPos)),
      [rotation |-> qG,
       translation |-> vector_set3(Rat(-1), Rat(0), Rat(2)),
       x_axis |-> vector_set3(Rat(1), Rat(2), Rat(0)),
       y_axis |-> vector_set3(Rat(0), Rat(1), Rat(3)),
       z_axis |-> vector_set3(Rat(-1), Rat(0), Rat(2))] }

\* operands of the binary operations
Transforms ==
    { vqm_set(t, q, s) : t \in Translations \ {vector_zero}, q \in Rotations, s \in {sPos, sNeg1, sZero1} }
        \cup ShearedTransforms \cup {vqm_identity}

\* third operands of a chained product
ThirdTransforms ==
    { vqm_set(vector_set3(Rat(1), Rat(2), Rat(-3)), qG, sNeg2),
      vqm_set(vector_set3(Rat(0), Rat(0), Rat(0)), qH, sZero2) }
        \cup { t \in ShearedTransforms : t.rotation = qG }

---------------------------------------------------------------------------
(* The calls                                                               *)

Init ==
    /\ op = "idle"
    /\ args = <<>>
    /\ ret = <<>>
    /\ RTM_HAS_ASSERT_CHECKS \in BOOLEAN

\* dst_tx = vqm_set(translation, rotation, scale)
VqmSet(translation, rotation, scale) ==
    /\ op = "idle"
    /\ op' = "vqm_set"
    /\ args' = [translation |-> translation, rotation |-> rotation, scale |-> scale]
    /\ ret' = vqm_set(translation, rotation, scale)
    /\ UNCHANGED RTM_HAS_ASSERT_CHECKS

\* vqm_mul(lhs, rhs)
VqmMul(lhs, rhs) ==
    /\ op = "idle"
    /\ op' = "vqm_mul"
    /\ args' = [lhs |-> lhs, rhs |-> rhs]
    /\ ret' = vqm_mul(lhs, rhs)
    /\ UNCHANGED RTM_HAS_ASSERT_CHECKS

\* vqm_mul(vqm_mul(lhs, rhs), third): the product just returned is multiplied again
VqmMulThird(third) ==
    /\ op = "vqm_mul"
    /\ op' = "vqm_mul/vqm_mul"
    /\ args' = [lhs |-> args.lhs, rhs |-> args.rhs, third |-> third]
    /\ ret' = vqm_mul(ret, third)
    /\ UNCHANGED RTM_HAS_ASSERT_CHECKS

\* vqm_inverse(input)
VqmInverse(input) ==
    /\ op = "idle"
    /\ op' = "vqm_inverse"
    /\ args' = [input |-> input]
    /\ ret' = vqm_inverse(input)
    /\ UNCHANGED RTM_HAS_ASSERT_CHECKS

\* vqm_mul(T, vqm_inverse(T)): the inverse just returned is the right operand
VqmMulInverseRhs ==
    /\ op = "vqm_inverse"
    /\ op' = "vqm_inverse/vqm_mul_rhs"
    /\ ret' = vqm_mul(args.input, ret)
    /\ UNCHANGED <<args, RTM_HAS_ASSERT_CHECKS>>

\* vqm_mul(vqm_inverse(T), T): the inverse just returned is the left operand
VqmMulInverseLhs ==
    /\ op = "vqm_inverse"
    /\ op' = "vqm_inverse/vqm_mul_lhs"
    /\ ret' = vqm_mul(ret, args.input)
    /\ UNCHANGED <<args, RTM_HAS_ASSERT_CHECKS>>

\* vqm_to_matrix of the transform just returned
VqmToMatrix ==
    /\ op \in {"vqm_set", "vqm_mul", "vqm_inverse"}
    /\ op' = IF op = "vqm_set" THEN "vqm_set/vqm_to_matrix"
             ELSE IF op = "vqm_mul" THEN "vqm_mul/vqm_to_matrix"
             ELSE "vqm_inverse/vqm_to_matrix"
    /\ ret' = vqm_to_matrix(ret)
    /\ UNCHANGED <<args, RTM_HAS_ASSERT_CHECKS>>

\* vqm_mul_point3(point, vqm)
VqmMulPoint3(point, vqm) ==
    /\ op = "idle"
    /\ op' = "vqm_mul_point3"
    /\ args' = [point |-> point, vqm |-> vqm]
    /\ ret' = vqm_mul_point3(point, vqm)
    /\ UNCHANGED RTM_HAS_ASSERT_CHECKS

\* vqm_mul_vector3(vec3, vqm)
VqmMulVector3(vec3, vqm) ==
    /\ op = "idle"
    /\ op' = "vqm_mul_vector3"
    /\ args' = [point |-> vec3, vqm |-> vqm]
    /\ ret' = vqm_mul_vector3(vec3, vqm)
    /\ UNCHANGED RTM_HAS_ASSERT_CHECKS

\* vqm_mul_point3(point, vqm_mul(lhs, rhs)): the product just returned transforms a point
VqmMulPoint3OfProduct(point) ==
    /\ op = "vqm_mul"
    /\ op' = "vqm_mul/vqm_mul_point3"
    /\ args' = [lhs |-> args.lhs, rhs |-> args.rhs, point |-> point]
    /\ ret' = vqm_mul_point3(point, ret)
    /\ UNCHANGED RTM_HAS_ASSERT_CHECKS

\* vqm_mul_vector3(vec3, vqm_mul(lhs, rhs)): the product just returned transforms a vector
VqmMulVector3OfProduct(vec3) ==
    /\ op = "vqm_mul"
    /\ op' = "vqm_mul/vqm_mul_vector3"
    /\ args' = [lhs |-> args.lhs, rhs |-> args.rhs, point |-> vec3]
    /\ ret' = vqm_mul_vector3(vec3, ret)
    /\ UNCHANGED RTM_HAS_ASSERT_CHECKS

\* tx = vqm_set_rotation(qvm, rotation); qvm is passed by const reference and
\* is recorded in args as the caller holds it after the call
VqmSetRotation(qvm, rotation) ==
    /\ op = "idle"
    /\ op' = "vqm_set_rotation"
    /\ args' = [qvm |-> qvm, rotation |-> rotation]
    /\ ret' = vqm_set_rotation(qvm, rotation)
    /\ UNCHANGED RTM_HAS_ASSERT_CHECKS

\* tx = vqm_set_translation(tx, translation), on a transform built by the
\* caller or on the one vqm_set_rotation has just returned
VqmSetTranslation(qvm, translation) ==
    /\ \/ op = "idle" /\ qvm # ret
       \/ op = "vqm_set_rotation" /\ qvm = ret
    /\ op' = IF op = "idle" THEN "vqm_set_translation"
             ELSE "vqm_set_rotation/vqm_set_translation"
    /\ args' = [qvm |-> qvm, translation |-> translation]
    /\ ret' = vqm_set_translation(qvm, translation)
    /\ UNCHANGED RTM_HAS_ASSERT_CHECKS

\* rotations of length 5, 5, 2, 1/2 and 1
UnnormalizedRotations ==
    { vector_set(Rat(1), Rat(2), Rat(2), Rat(4)), vector_set(Rat(0), Rat(0), Rat(-3), Rat(4)),
      vector_set(Rat(2), Rat(0), Rat(0), Rat(0)), vector_set(Rat(0), Frac(1, 2), Rat(0), Rat(0)), qH }

\* qvv_normalize(input), on the transform T given the rotation and with the w
\* lanes of its translation and axes set to w
QvvNormalize(T, rotation, w) ==
    /\ op = "idle"
    /\ op' = "qvv_normalize"
    /\ args' = [input |-> [rotation |-> rotation,
                           translation |-> [T.translation EXCEPT ![4] = w],
                           x_axis |-> [T.x_axis EXCEPT ![4] = w],
                           y_axis |-> [T.y_axis EXCEPT ![4] = w],
                           z_axis |-> [T.z_axis EXCEPT ![4] = w]]]
    /\ ret' = qvv_normalize(args'.input)
    /\ UNCHANGED RTM_HAS_ASSERT_CHECKS

\* tx = vqm_set_scale(qvm, scale)
VqmSetScale(qvm, scale) ==
    /\ op = "idle"
    /\ op' = "vqm_set_scale"
    /\ args' = [qvm |-> qvm, scale |-> scale]
    /\ ret' = vqm_set_scale(qvm, scale)
    /\ UNCHANGED RTM_HAS_ASSERT_CHECKS

\* inverse2 = vqm_inverse(inverse) for the result of the previous vqm_inverse
VqmInverseOfInverse ==
    /\ op = "vqm_inverse"
    /\ op' = "vqm_inverse/vqm_inverse"
    /\ ret' = vqm_inverse(ret)
    /\ UNCHANGED <<args, RTM_HAS_ASSERT_CHECKS>>

Next ==
    \/ \E t \in Translations, q \in Rotations, s \in Scales : VqmSet(t, q, s)
    \/ \E a \in Transforms, b \in Transforms : VqmMul(a, b)
    \/ \E a \in SetTransforms : VqmMul(a, a)
    \/ \E c \in ThirdTransforms : VqmMulThird(c)
    \/ \E T \in SetTransforms \cup ShearedTransforms : VqmInverse(T)
    \/ VqmMulInverseRhs
    \/ VqmMulInverseLhs
    \/ VqmToMatrix
    \/ \E p \in Points : VqmMulPoint3OfProduct(p)
    \/ \E p \in Points : VqmMulVector3OfProduct(p)
    \/ \E qvm \in Transforms, rotation \in Rotations \cup {vector_set(Rat(1), Rat(2), Rat(3), Rat(4))} :
           VqmSetRotation(qvm, rotation)
    \/ \E qvm \in Transforms, translation \in Translations \cup {vector_set(Rat(1), Rat(2), Rat(3), Rat(4))} :
           VqmSetTranslation(qvm, translation)
    \/ \E translation \in Translations \cup {vector_set(Rat(1), Rat(2), Rat(3), Rat(4))} :
           VqmSetTranslation(ret, translation)
    \/ \E T \in Transforms, rotation \in UnnormalizedRotations, w \in {Rat(0), Rat(7)} :
           QvvNormalize(T, rotation, w)
    \/ \E qvm \in Transforms, scale \in {vector_set(Rat(4), Rat(5), Rat(6), Rat(9)), vector_set3(Rat(0), Rat(-1), Rat(7))} :
           VqmSetScale(qvm, scale)
    \/ \E p \in Points, T \in SetTransforms \cup ShearedTransforms : VqmMulPoint3(p, T)
    \/ \E p \in Points, T \in SetTransforms \cup ShearedTransforms : VqmMulVector3(p, T)

Spec == Init /\ [][Next]_vars

\* vqm_inverse and vqm_inverse of its result, on the transforms Spec inverts
NextInverse ==
    \/ \E T \in SetTransforms \cup ShearedTransforms : VqmInverse(T)
    \/ VqmInverseOfInverse

SpecInverse == Init /\ [][NextInverse]_vars

---------------------------------------------------------------------------
(* Comparisons used by the properties                                      *)

\* lanes x, y, z agree
vector_equal3(a, b) == a[1] = b[1] /\ a[2] = b[2] /\ a[3] = b[3]

\* lanes x, y, z of the four rows agree
matrix_equal3(m, n) ==
    /\ vector_equal3(m.x_axis, n.x_axis)
    /\ vector_equal3(m.y_axis, n.y_axis)
    /\ vector_equal3(m.z_axis, n.z_axis)
    /\ vector_equal3(m.w_axis, n.w_axis)

\* rotation (all lanes), translation and the three axes (x, y, z) agree
vqm_equal3(a, b) ==
    /\ a.rotation = b.rotation
    /\ vector_equal3(a.translation, b.translation)
    /\ vector_equal3(a.x_axis, b.x_axis)
    /\ vector_equal3(a.y_axis, b.y_axis)
    /\ vector_equal3(a.z_axis, b.z_axis)

IsSingular(vqm) ==
    matrix_determinant3x3(matrix_set3(vqm.x_axis, vqm.y_axis, vqm.z_axis)) = Rat(0)

HasShear(vqm) ==
    \/ vqm.x_axis[2] # Rat(0) \/ vqm.x_axis[3] # Rat(0)
    \/ vqm.y_axis[1] # Rat(0) \/ vqm.y_axis[3] # Rat(0)
    \/ vqm.z_axis[1] # Rat(0) \/ vqm.z_axis[2] # Rat(0)

HasNegativeScale(vqm) == vqm.x_axis[1][1] < 0 \/ vqm.y_axis[2][1] < 0 \/ vqm.z_axis[3][1] < 0

---------------------------------------------------------------------------
(* Properties                                                              *)

\* C1: converting a product of two VQM transforms to a matrix gives, on the
\* x, y, z lanes of all four rows, the product of the two converted matrices.
C1_MulCommutesWithToMatrix ==
    op = "vqm_mul/vqm_to_matrix" =>
        matrix_equal3(ret, matrix_mul(vqm_to_matrix(args.lhs), vqm_to_matrix(args.rhs)))

\* a singular sheared transform times a negatively scaled one, rotations differing
C1_Witness ==
    /\ op = "vqm_mul/vqm_to_matrix"
    /\ HasShear(args.lhs) /\ IsSingular(args.lhs)
    /\ HasNegativeScale(args.rhs)
    /\ args.lhs.rotation # args.rhs.rotation
    /\ args.rhs.rotation # quat_identity

\* C2: a non-singular transform times its inverse, on either side, is the
\* identity transform.
C2_InverseLaws ==
    (op \in {"vqm_inverse/vqm_mul_rhs", "vqm_inverse/vqm_mul_lhs"} /\ ~IsSingular(args.input)) =>
        vqm_equal3(ret, vqm_identity)

C2_Witness ==
    /\ op = "vqm_inverse/vqm_mul_lhs"
    /\ ~IsSingular(args.input)
    /\ HasShear(args.input)
    /\ args.input.rotation # quat_identity
    /\ ~vector_equal3(args.input.translation, vector_zero)

\* C3: multiplying by the identity transform on either side returns the
\* other operand (rotation, translation and the three axes).
C3_IdentityLaws ==
    /\ (op = "vqm_mul" /\ args.rhs = vqm_identity) => vqm_equal3(ret, args.lhs)
    /\ (op = "vqm_mul" /\ args.lhs = vqm_identity) => vqm_equal3(ret, args.rhs)

C3_Witness ==
    /\ op = "vqm_mul"
    /\ args.lhs = vqm_identity
    /\ HasShear(args.rhs) /\ IsSingular(args.rhs)
    /\ ~vector_equal3(args.rhs.translation, vector_zero)

\* C4: vqm_mul_point3 / vqm_mul_vector3 agree on x, y, z with the affine matrix
\* of the same transform: matrix_mul_point3 (translation applied) and the
\* matrix vector transform (no translation); the matrix is vqm_to_matrix(T) and,
\* for a T that vqm_set built, also matrix_from_qvv of its rotation, translation, scale.
C4_PointTransformMatchesMatrix ==
    /\ op = "vqm_mul_point3" =>
        /\ vector_equal3(ret, matrix_mul_point3(args.point, vqm_to_matrix(args.vqm)))
        /\ args.vqm \in SetTransforms =>
             vector_equal3(ret, matrix_mul_point3(args.point,
                 matrix_from_qvv(args.vqm.rotation, args.vqm.translation, vqm_get_scale(args.vqm))))
    /\ op = "vqm_mul_vector3" =>
        /\ vector_equal3(ret, matrix_mul_vector3(args.point, vqm_to_matrix(args.vqm)))
        /\ args.vqm \in SetTransforms =>
             vector_equal3(ret, matrix_mul_vector3(args.point,
                 matrix_from_qvv(args.vqm.rotation, args.vqm.translation, vqm_get_scale(args.vqm))))

\* a non-zero point through a rotated, translated transform with a zero scale component
C4_Witness ==
    /\ op = "vqm_mul_point3"
    /\ args.vqm \in SetTransforms
    /\ vqm_get_scale(args.vqm) = sZero1
    /\ args.vqm.rotation = qG
    /\ ~vector_equal3(args.vqm.translation, vector_zero)
    /\ ~vector_equal3(args.point, vector_zero)
    /\ ~vector_equal3(ret, args.vqm.translation)

\* C5: vqm_to_matrix(vqm_set(t, q, s)) equals matrix_from_qvv(q, t, s) on the
\* x, y, z lanes of the four rows, for unit q and any scale.
C5_SetToMatrixMatchesFromQvv ==
    op = "vqm_set/vqm_to_matrix" =>
        matrix_equal3(ret, matrix_from_qvv(args.rotation, args.translation, args.scale))

C5_Witness ==
    /\ op = "vqm_set/vqm_to_matrix"
    /\ quat_is_normalized(args.rotation)
    /\ args.rotation = qG
    /\ args.scale = sNeg2
    /\ ~vector_equal3(args.translation, vector_zero)

\* C6: for a transform built by vqm_set with no zero scale component, the matrix
\* of its VQM inverse equals, on x, y, z of the four rows, the 3x4 cofactor
\* inverse of matrix_from_qvv.
C6_InverseMatchesMatrixInverse ==
    (op = "vqm_inverse/vqm_to_matrix" /\ args.input \in SetTransforms /\ ~IsSingular(args.input)) =>
        matrix_equal3(ret,
            matrix_inverse(matrix_from_qvv(args.input.rotation, args.input.translation,
                                           vqm_get_scale(args.input)), RTM_HAS_ASSERT_CHECKS))

C6_Witness ==
    /\ op = "vqm_inverse/vqm_to_matrix"
    /\ args.input \in SetTransforms
    /\ vqm_get_scale(args.input) = sNeg1
    /\ args.input.rotation = qG
    /\ ~vector_equal3(args.input.translation, vector_zero)

\* C7: vqm_mul is associative on rotation, translation and the three axes.
C7_MulAssociative ==
    op = "vqm_mul/vqm_mul" =>
        vqm_equal3(ret, vqm_mul(args.lhs, vqm_mul(args.rhs, args.third)))

C7_Witness ==
    /\ op = "vqm_mul/vqm_mul"
    /\ HasShear(args.lhs) /\ HasShear(args.third)
    /\ HasNegativeScale(args.rhs)
    /\ args.lhs.rotation # args.rhs.rotation
    /\ args.rhs.rotation # args.third.rotation
    /\ args.rhs.rotation # quat_identity
    /\ ~vector_equal3(args.rhs.translation, vector_zero)

---------------------------------------------------------------------------
(* qvv_is_finite: inputs with one non-finite lane, and its calls           *)

NonFinite == {NaN, PosInf, NegInf}

VqmFields == {"rotation", "translation", "x_axis", "y_axis", "z_axis"}

\* vqmd is a plain struct: a caller can store any value in any lane
PokedBases ==
    { vqm_set(vector_set3(Rat(1), Rat(2), Rat(-3)), qG, sNeg1),
      [rotation |-> qH,
       translation |-> vector_set(Rat(-1), Rat(0), Rat(2), Rat(1)),
       x_axis |-> vector_set(Rat(1), Rat(2), Rat(0), Rat(0)),
       y_axis |-> vector_set(Rat(0), Rat(1), Rat(3), Rat(0)),
       z_axis |-> vector_set(Rat(-1), Rat(0), Rat(2), Rat(0))] }

Poke(vqm, field, lane, value) ==
    [vqm EXCEPT ![field] = [@ EXCEPT ![lane] = value]]

PokedTransforms ==
    PokedBases \cup
    { Poke(b, f, i, v) : b \in PokedBases, f \in VqmFields, i \in 1..4, v \in NonFinite }

QvvIsFinite(input) ==
    /\ op = "idle"
    /\ op' = "qvv_is_finite"
    /\ args' = [input |-> input]
    /\ ret' = qvv_is_finite(input)
    /\ UNCHANGED RTM_HAS_ASSERT_CHECKS

\* qvv_is_finite(vqm_inverse(T)): a zero scale makes the inverse non-finite
QvvIsFiniteOfInverse ==
    /\ op = "vqm_inverse"
    /\ op' = "vqm_inverse/qvv_is_finite"
    /\ args' = [input |-> ret]
    /\ ret' = qvv_is_finite(ret)
    /\ UNCHANGED RTM_HAS_ASSERT_CHECKS

NextFinite ==
    \/ \E T \in PokedTransforms : QvvIsFinite(T)
    \/ \E T \in SetTransforms \cup ShearedTransforms : VqmInverse(T)
    \/ QvvIsFiniteOfInverse

SpecFinite == Init /\ [][NextFinite]_vars

---------------------------------------------------------------------------
(* 3x4 affine matrices: inputs and calls                                   *)

MatrixRotations == {qI, qZ, qG}

MatrixScales == {sPos, sNeg1, sZero1}

ShearedMatrices ==
    { matrix_mul(matrix_from_qvv(qZ, vector_set3(Rat(1), Rat(2), Rat(-3)), sPos),
                 matrix_from_qvv(qH, vector_set3(Rat(0), Rat(1), Rat(0)), sNeg1)),
      matrix_set(vector_set(Rat(1), Rat(2), Rat(0), Rat(0)),
                 vector_set(Rat(0), Rat(1), Rat(3), Rat(0)),
                 vector_set(Rat(-1), Rat(0), Rat(2), Rat(0)),
                 vector_set(Rat(-1), Rat(0), Rat(2), Rat(1))) }

\* axis rows with w = 0, translation row with w = 1
AffineMatrices ==
    { matrix_from_qvv(q, t, s) : q \in MatrixRotations, t \in Translations, s \in MatrixScales }
    \cup { matrix_from_translation(t) : t \in Translations }
    \cup ShearedMatrices

MatrixMul(lhs, rhs) ==
    /\ op = "idle"
    /\ op' = "matrix_mul"
    /\ args' = [lhs |-> lhs, rhs |-> rhs]
    /\ ret' = matrix_mul(lhs, rhs)
    /\ UNCHANGED RTM_HAS_ASSERT_CHECKS

\* matrix_mul(matrix_mul(lhs, rhs), third): the product just returned is multiplied again
MatrixMulThird(third) ==
    /\ op = "matrix_mul"
    /\ op' = "matrix_mul/matrix_mul"
    /\ args' = [lhs |-> args.lhs, rhs |-> args.rhs, third |-> third]
    /\ ret' = matrix_mul(ret, third)
    /\ UNCHANGED RTM_HAS_ASSERT_CHECKS

\* matrix_mul_point3(point, matrix_mul(lhs, rhs))
MatrixMulPoint3(point) ==
    /\ op = "matrix_mul"
    /\ op' = "matrix_mul/matrix_mul_point3"
    /\ args' = [lhs |-> args.lhs, rhs |-> args.rhs, point |-> point]
    /\ ret' = matrix_mul_point3(point, ret)
    /\ UNCHANGED RTM_HAS_ASSERT_CHECKS

MatrixInverse(input) ==
    /\ op = "idle"
    /\ op' = "matrix_inverse"
    /\ args' = [input |-> input]
    /\ ret' = matrix_inverse(input, RTM_HAS_ASSERT_CHECKS)
    /\ UNCHANGED RTM_HAS_ASSERT_CHECKS

\* matrix_mul(M, matrix_inverse(M))
MatrixMulInverseRhs ==
    /\ op = "matrix_inverse"
    /\ op' = "matrix_inverse/matrix_mul_rhs"
    /\ ret' = matrix_mul(args.input, ret)
    /\ UNCHANGED <<args, RTM_HAS_ASSERT_CHECKS>>

\* matrix_mul(matrix_inverse(M), M)
MatrixMulInverseLhs ==
    /\ op = "matrix_inverse"
    /\ op' = "matrix_inverse/matrix_mul_lhs"
    /\ ret' = matrix_mul(ret, args.input)
    /\ UNCHANGED <<args, RTM_HAS_ASSERT_CHECKS>>

\* 3x4 matrices whose sixteen lanes are pairwise different, fourth lanes included
GeneralMatrices ==
    { matrix_set(vector_set(Rat(1 + k), Rat(2 + k), Rat(3 + k), Rat(4 + k)),
                 vector_set(Rat(5 + k), Rat(6 + k), Rat(7 + k), Rat(8 + k)),
                 vector_set(Rat(9 + k), Rat(10 + k), Rat(11 + k), Rat(12 + k)),
                 vector_set(Rat(13 + k), Rat(14 + k), Rat(15 + k), Rat(16 + k))) : k \in {0, 20} }

MatrixTranspose(input) ==
    /\ op = "idle"
    /\ op' = "matrix_transpose"
    /\ args' = [input |-> input]
    /\ ret' = matrix_transpose(input)
    /\ UNCHANGED RTM_HAS_ASSERT_CHECKS

\* axis rows of squared length 0, 1/400000000 (below 1.0e-8), 1/4, 4 and 9, and a NaN row
ScaledAxes ==
    { vector_zero, vector_set3(Frac(1, 20000), Rat(0), Rat(0)), vector_set3(Rat(0), Rat(0), Frac(-1, 2)),
      vector_set3(Rat(0), Rat(2), Rat(0)), vector_set3(Rat(1), Rat(2), Rat(-2)),
      vector_set3(NaN, Rat(0), Rat(1)) }

\* matrix_remove_scale(input)
MatrixRemoveScale(input) ==
    /\ op = "idle"
    /\ op' = "matrix_remove_scale"
    /\ args' = [input |-> input]
    /\ ret' = matrix_remove_scale(input)
    /\ UNCHANGED RTM_HAS_ASSERT_CHECKS

\* matrix_get_axis(input, axis), axis being any value the enum's storage can
\* hold; in the default case RTM_ASSERT(false, ..) stops the call when the
\* checks are compiled in, and nothing is returned
MatrixGetAxis(input, axis) ==
    /\ op = "idle"
    /\ op' = IF RTM_HAS_ASSERT_CHECKS /\ axis \notin 1..4 THEN "matrix_get_axis/RTM_ASSERT"
             ELSE "matrix_get_axis"
    /\ args' = [input |-> input, axis |-> axis]
    /\ ret' = IF RTM_HAS_ASSERT_CHECKS /\ axis \notin 1..4 THEN <<>> ELSE matrix_get_axis(input, axis)
    /\ UNCHANGED RTM_HAS_ASSERT_CHECKS

\* dst d = matrix_cast(mtx) for a matrix mtx of type src
MatrixCast(src, dst, mtx) ==
    /\ op = "idle"
    /\ op' = IF RTM_HAS_ASSERT_CHECKS /\ matrix_caster_asserts(src, dst, mtx)
             THEN "matrix_cast/RTM_ASSERT" ELSE "matrix_cast"
    /\ args' = [src |-> src, dst |-> dst, mtx |-> mtx]
    /\ ret' = IF RTM_HAS_ASSERT_CHECKS /\ matrix_caster_asserts(src, dst, mtx)
              THEN <<>> ELSE matrix_caster(src, dst, mtx)
    /\ UNCHANGED RTM_HAS_ASSERT_CHECKS

\* dst2 d2 = matrix_cast(d) for the result d of the previous cast
MatrixCastResult(dst2) ==
    /\ op = "matrix_cast"
    /\ op' = IF RTM_HAS_ASSERT_CHECKS /\ matrix_caster_asserts(args.dst, dst2, ret)
             THEN "matrix_cast/matrix_cast/RTM_ASSERT" ELSE "matrix_cast/matrix_cast"
    /\ args' = [src |-> args.src, dst |-> args.dst, mtx |-> args.mtx, dst2 |-> dst2]
    /\ ret' = IF RTM_HAS_ASSERT_CHECKS /\ matrix_caster_asserts(args.dst, dst2, ret)
              THEN <<>> ELSE matrix_caster(args.dst, dst2, ret)
    /\ UNCHANGED RTM_HAS_ASSERT_CHECKS

NextMatrix ==
    \/ \E dst \in {"matrix3x3", "matrix3x4", "matrix4x4"} :
           \E M \in AffineMatrices \cup GeneralMatrices :
               \/ MatrixCast("matrix3x3", dst, matrix_caster("matrix3x4", "matrix3x3", M))
               \/ MatrixCast("matrix3x4", dst, M)
               \/ MatrixCast("matrix4x4", dst, M)
    \/ \E dst2 \in {"matrix3x3", "matrix3x4", "matrix4x4"} : MatrixCastResult(dst2)
    \/ \E A \in AffineMatrices, B \in AffineMatrices : MatrixMul(A, B)
    \/ \E A \in { [M EXCEPT !.w_axis = [M.w_axis EXCEPT ![4] = w]] : M \in ShearedMatrices, w \in {Rat(0), Rat(5)} },
          B \in AffineMatrices : MatrixMul(A, B) \/ MatrixMul(B, A)
    \/ \E C \in ShearedMatrices \cup {matrix_from_translation(vector_set3(Rat(1), Rat(2), Rat(-3)))} :
           MatrixMulThird(C)
    \/ \E p \in Points : MatrixMulPoint3(p)
    \/ \E M \in AffineMatrices : MatrixInverse(M)
    \/ MatrixMulInverseRhs
    \/ MatrixMulInverseLhs
    \/ \E M \in AffineMatrices \cup GeneralMatrices : MatrixTranspose(M)
    \/ \E x \in ScaledAxes, y \in ScaledAxes, z \in ScaledAxes,
          w \in {vector_set(Rat(1), Rat(-2), Rat(3), Rat(1)), vector_set(Rat(0), Rat(0), Rat(0), Rat(5))} :
           MatrixRemoveScale(matrix_set(x, y, z, w))
    \/ \E M \in AffineMatrices \cup GeneralMatrices, axis \in 0..6 : MatrixGetAxis(M, axis)

SpecMatrix == Init /\ [][NextMatrix]_vars

matrix_determinant(mtx) ==
    matrix_determinant3x3(matrix_set3(mtx.x_axis, mtx.y_axis, mtx.z_axis))

matrix_is_finite(mtx) ==
    /\ vector_is_finite(mtx.x_axis)
    /\ vector_is_finite(mtx.y_axis)
    /\ vector_is_finite(mtx.z_axis)
    /\ vector_is_finite(mtx.w_axis)

IsAffine(mtx) ==
    /\ mtx.x_axis[4] = Rat(0)
    /\ mtx.y_axis[4] = Rat(0)
    /\ mtx.z_axis[4] = Rat(0)
    /\ mtx.w_axis[4] = Rat(1)

---------------------------------------------------------------------------
(* Properties of qvv_is_finite and of the 3x4 matrices                     *)

AllLanesFinite(v) == \A i \in 1..4 : scalar_is_finite(v[i])

Lanes3Finite(v) == \A i \in 1..3 : scalar_is_finite(v[i])

\* C8: qvv_is_finite(T) is true iff the four lanes of rotation and the x, y, z
\* lanes of translation, x_axis, y_axis and z_axis are all finite; the w lanes
\* of translation and of the three axes are not looked at.
C8_IsFiniteIgnoresPaddingLanes ==
    op \in {"qvv_is_finite", "vqm_inverse/qvv_is_finite"} =>
        (ret <=> /\ AllLanesFinite(args.input.rotation)
                 /\ Lanes3Finite(args.input.translation)
                 /\ Lanes3Finite(args.input.x_axis)
                 /\ Lanes3Finite(args.input.y_axis)
                 /\ Lanes3Finite(args.input.z_axis))

\* a non-finite w lane in an axis, every other lane finite: the answer is TRUE
C8_Witness ==
    /\ op = "qvv_is_finite"
    /\ ~scalar_is_finite(args.input.y_axis[4])
    /\ ret = TRUE

\* C8 as stated: true iff every lane of rotation, translation, x_axis, y_axis
\* and z_axis is finite.
C8_IsFiniteEveryLane ==
    op \in {"qvv_is_finite", "vqm_inverse/qvv_is_finite"} =>
        (ret <=> \A f \in VqmFields : AllLanesFinite(args.input[f]))

\* C9: transforming a point by matrix_mul(A, B) equals transforming it by A and
\* then by B, for affine A and B (all four lanes of the result).
C9_MatrixMulAppliesLeftFirst ==
    (op = "matrix_mul/matrix_mul_point3" /\ IsAffine(args.lhs) /\ IsAffine(args.rhs)) =>
        ret = matrix_mul_point3(matrix_mul_point3(args.point, args.lhs), args.rhs)

C9_Witness ==
    /\ op = "matrix_mul/matrix_mul_point3"
    /\ IsAffine(args.lhs) /\ IsAffine(args.rhs)
    /\ args.lhs \in ShearedMatrices
    /\ args.rhs \notin ShearedMatrices
    /\ matrix_determinant(args.rhs) # Rat(0)
    /\ ~vector_equal3(args.rhs.w_axis, vector_zero)
    /\ args.rhs.x_axis[2] # Rat(0)
    /\ ~vector_equal3(args.point, vector_zero)
    /\ matrix_mul_point3(args.point, matrix_mul(args.rhs, args.lhs)) # ret

\* C10: for an affine matrix M with non-zero determinant, matrix_mul(M,
\* matrix_inverse(M)) and matrix_mul(matrix_inverse(M), M) are the identity
\* affine matrix; with a zero determinant there is no fallback: the inverse
\* returned has non-finite lanes.
C10_MatrixInverseLaws ==
    /\ (/\ op \in {"matrix_inverse/matrix_mul_rhs", "matrix_inverse/matrix_mul_lhs"}
        /\ IsAffine(args.input)
        /\ matrix_determinant(args.input) # Rat(0))
            => ret = matrix_from_translation(vector_zero)
    /\ (op = "matrix_inverse" /\ IsAffine(args.input) /\ matrix_determinant(args.input) = Rat(0))
            => ~matrix_is_finite(ret)

C10_Witness ==
    /\ op = "matrix_inverse/matrix_mul_lhs"
    /\ args.input \in ShearedMatrices
    /\ matrix_determinant(args.input) \notin {Rat(0), Rat(1), Rat(-1)}
    /\ ~vector_equal3(args.input.w_axis, vector_zero)
    /\ ret = matrix_from_translation(vector_zero)

\* C11: matrix_transpose of a 3x4 matrix is a full 4x4 transpose: lane j of
\* result row i is lane i of input row j for all i, j in 1..4; so the result's
\* w_axis is the four w lanes of the input rows, and the input translation is
\* in the fourth lane of the result's x, y and z rows.
C11_TransposeIsFull4x4 ==
    op = "matrix_transpose" =>
        /\ \A i \in 1..4 : \A j \in 1..4 :
               matrix_get_axis(ret, i)[j] = matrix_get_axis(args.input, j)[i]
        /\ ret.w_axis = vector_set(args.input.x_axis[4], args.input.y_axis[4],
                                   args.input.z_axis[4], args.input.w_axis[4])
        /\ <<ret.x_axis[4], ret.y_axis[4], ret.z_axis[4]>>
               = <<args.input.w_axis[1], args.input.w_axis[2], args.input.w_axis[3]>>

\* a matrix with sixteen different lanes has been transposed
C11_Witness ==
    /\ op = "matrix_transpose"
    /\ args.input \in GeneralMatrices
    /\ ret # args.input
    /\ ret.w_axis[1] = args.input.x_axis[4]
    /\ ret.w_axis[1] # args.input.w_axis[1]

---------------------------------------------------------------------------
(* Calls of the vector4 functions, each compiled for one instruction set   *)

\* the instruction sets the source has a path for; "scalar" is the path taken
\* when neither intrinsics macro is defined
Builds == {"scalar", "RTM_SSE2_INTRINSICS", "RTM_NEON_INTRINSICS"}

\* vector_mix has specialised paths under SSE2 only
vector_mix_build(build, c0, c1, c2, c3, input0, input1) ==
    IF build = "RTM_SSE2_INTRINSICS"
        THEN vector_mix_sse2(c0, c1, c2, c3, input0, input1)
        ELSE vector_mix(c0, c1, c2, c3, input0, input1)

\* test_value0 and test_value1 of test_vector_mix_impl, and a pair with
\* non-finite and repeated lanes
MixInputs ==
    { <<vector_set(Rat(2), Frac(934, 100), Frac(-5412, 100), Rat(6000)),
        vector_set(Frac(3, 4), Frac(-452, 100), Frac(4468, 100), Rat(-54225))>>,
      <<vector_set(NaN, Rat(1), PosInf, Rat(1)),
        vector_set(Rat(1), NegInf, Rat(0), Rat(7))>> }

\* one call vector_mix<c0, c1, c2, c3>(input0, input1)
VectorMix ==
    /\ op = "idle"
    /\ \E build \in Builds, c0 \in 0..7, c1 \in 0..7, c2 \in 0..7, c3 \in 0..7, in \in MixInputs :
           /\ op' = "vector_mix"
           /\ args' = [build |-> build, comp |-> <<c0, c1, c2, c3>>,
                       input0 |-> in[1], input1 |-> in[2]]
           /\ ret' = vector_mix_build(build, c0, c1, c2, c3, in[1], in[2])
    /\ UNCHANGED RTM_HAS_ASSERT_CHECKS

\* _mm_cmplt_ps / _mm_cmple_ps / _mm_cmpge_ps and vcltq_f32 / vcleq_f32 /
\* vcgeq_f32: per lane all bits set or none; a lane is four little-endian bytes
vector_compare_mask(rel, lhs, rhs) ==
    [i \in 1..4 |-> IF scalar_compare(rel, lhs[i], rhs[i])
                        THEN <<255, 255, 255, 255>> ELSE <<0, 0, 0, 0>>]

\* _mm_movemask_ps: bit i is the top bit of lane i
mm_movemask_ps(mask) ==
    (mask[1][4] \div 128) + 2 * (mask[2][4] \div 128)
        + 4 * (mask[3][4] \div 128) + 8 * (mask[4][4] \div 128)

RECURSIVE BitAnd(_, _)
\* operator & on unsigned integers
BitAnd(a, b) ==
    IF a = 0 \/ b = 0 THEN 0
    ELSE (a % 2) * (b % 2) + 2 * BitAnd(a \div 2, b \div 2)

\* vzip_u8 on two uint8x8_t: val[0] and val[1]
vzip_u8(a, b) ==
    << <<a[1], b[1], a[2], b[2], a[3], b[3], a[4], b[4]>>,
       <<a[5], b[5], a[6], b[6], a[7], b[7], a[8], b[8]>> >>

\* vzip_u16 on two uint16x4_t held as eight bytes each: val[0] and val[1]
vzip_u16(a, b) ==
    << <<a[1], a[2], b[1], b[2], a[3], a[4], b[3], b[4]>>,
       <<a[5], a[6], b[5], b[6], a[7], a[8], b[7], b[8]>> >>

\* the NEON packing of a comparison mask: vget_low_u8 / vget_high_u8, vzip_u8,
\* vzip_u16, then vget_lane_u32(.., 0) as four little-endian bytes
neon_pack_mask(mask) ==
    LET bytes == mask[1] \o mask[2] \o mask[3] \o mask[4]
        mask_0_8_1_9_2_10_3_11_4_12_5_13_6_14_7_15 == vzip_u8(SubSeq(bytes, 1, 8), SubSeq(bytes, 9, 16))
        mask_0_8_4_12_1_9_5_13_2_10_6_14_3_11_7_15 ==
            vzip_u16(mask_0_8_1_9_2_10_3_11_4_12_5_13_6_14_7_15[1],
                     mask_0_8_1_9_2_10_3_11_4_12_5_13_6_14_7_15[2])
    IN SubSeq(mask_0_8_4_12_1_9_5_13_2_10_6_14_3_11_7_15[1], 1, 4)

\* operator & on two uint32 held as four little-endian bytes
BitAnd32(a, b) == [i \in 1..4 |-> BitAnd(a[i], b[i])]

\* vector_all_R / vector_any_R / vector_all_R3 / vector_any_R3 with the
\* three-lane NEON constant 0x00FFFFFF written as 0xFFFFFF00
vector_reduce_compare_neon_mask_shifted(build, rel, quant, lanes, lhs, rhs) ==
    IF build = "RTM_SSE2_INTRINSICS" THEN
        LET m == mm_movemask_ps(vector_compare_mask(rel, lhs, rhs))
        IN CASE quant = "all" /\ lanes = 4 -> m = 15
             [] quant = "all" /\ lanes = 3 -> BitAnd(m, 7) = 7
             [] quant = "any" /\ lanes = 4 -> m # 0
             [] quant = "any" /\ lanes = 3 -> BitAnd(m, 7) # 0
    ELSE IF build = "RTM_NEON_INTRINSICS" THEN
        LET m == neon_pack_mask(vector_compare_mask(rel, lhs, rhs))
        IN CASE quant = "all" /\ lanes = 4 -> m = <<255, 255, 255, 255>>
             [] quant = "all" /\ lanes = 3 ->
                    BitAnd32(m, <<0, 255, 255, 255>>) = <<0, 255, 255, 255>>
             [] quant = "any" /\ lanes = 4 -> m # <<0, 0, 0, 0>>
             [] quant = "any" /\ lanes = 3 -> BitAnd32(m, <<0, 255, 255, 255>>) # <<0, 0, 0, 0>>
    ELSE
        CASE quant = "all" -> \A i \in 1..lanes : scalar_compare(rel, lhs[i], rhs[i])
          [] quant = "any" -> \E i \in 1..lanes : scalar_compare(rel, lhs[i], rhs[i])

\* vector_all_less_than, vector_all_less_than3, vector_any_less_than,
\* vector_any_less_than3 and the same four for less_equal and greater_equal:
\* rel is the relation, quant is "all" or "any", lanes is 4 or 3 (the '3' variants)
vector_reduce_compare(build, rel, quant, lanes, lhs, rhs) ==
    IF build = "RTM_SSE2_INTRINSICS" THEN
        LET m == mm_movemask_ps(vector_compare_mask(rel, lhs, rhs))
        IN CASE quant = "all" /\ lanes = 4 -> m = 15
             [] quant = "all" /\ lanes = 3 -> BitAnd(m, 7) = 7
             [] quant = "any" /\ lanes = 4 -> m # 0
             [] quant = "any" /\ lanes = 3 -> BitAnd(m, 7) # 0
    ELSE IF build = "RTM_NEON_INTRINSICS" THEN
        LET m == neon_pack_mask(vector_compare_mask(rel, lhs, rhs))
        IN CASE quant = "all" /\ lanes = 4 -> m = <<255, 255, 255, 255>>
             [] quant = "all" /\ lanes = 3 ->
                    BitAnd32(m, <<255, 255, 255, 0>>) = <<255, 255, 255, 0>>
             [] quant = "any" /\ lanes = 4 -> m # <<0, 0, 0, 0>>
             [] quant = "any" /\ lanes = 3 -> BitAnd32(m, <<255, 255, 255, 0>>) # <<0, 0, 0, 0>>
    ELSE
        CASE quant = "all" -> \A i \in 1..lanes : scalar_compare(rel, lhs[i], rhs[i])
          [] quant = "any" -> \E i \in 1..lanes : scalar_compare(rel, lhs[i], rhs[i])

\* vector_max as _mm_max_ps computes it: lhs > rhs ? lhs : rhs in each lane
vector_max(lhs, rhs) ==
    [i \in 1..4 |-> IF scalar_compare("less_than", rhs[i], lhs[i]) THEN lhs[i] ELSE rhs[i]]

\* vector_abs(input): max(0 - input, input) under SSE2, vabsq_f32 and
\* scalar_abs per lane otherwise
vector_abs(build, input) ==
    IF build = "RTM_SSE2_INTRINSICS"
        THEN vector_max(vector_sub(vector_zero, input), input)
        ELSE [i \in 1..4 |-> <<Abs(input[i][1]), input[i][2]>>]

\* the near-equal reductions with the strict comparison
vector_near_equal_exclusive(build, quant, lanes, lhs, rhs, threshold) ==
    vector_reduce_compare(build, "less_than", quant, lanes,
                          vector_abs(build, vector_sub(lhs, rhs)), vector_splat(threshold))

\* vector_all_near_equal, vector_all_near_equal3, vector_any_near_equal and
\* vector_any_near_equal3: quant is "all" or "any", lanes is 4 or 3
vector_near_equal(build, quant, lanes, lhs, rhs, threshold) ==
    vector_reduce_compare(build, "less_equal", quant, lanes,
                          vector_abs(build, vector_sub(lhs, rhs)), vector_splat(threshold))

Relations == {"less_than", "less_equal", "greater_equal"}

\* lane values below, equal to, above and unordered with the lanes of the
\* right-hand sides
CompareLanes == {Rat(-1), Rat(0), Rat(1), NaN}

CompareRhs == { vector_zero, vector_set(Rat(0), Rat(1), Rat(-1), PosInf) }

\* one call of vector_{all,any}_{less_than,less_equal,greater_equal}[3](lhs, rhs)
VectorCompare ==
    /\ op = "idle"
    /\ \E build \in Builds, rel \in Relations, quant \in {"all", "any"}, lanes \in {3, 4},
          lhs \in [1..4 -> CompareLanes], rhs \in CompareRhs :
           /\ op' = "vector_compare"
           /\ args' = [build |-> build, rel |-> rel, quant |-> quant, lanes |-> lanes,
                       lhs |-> lhs, rhs |-> rhs]
           /\ ret' = vector_reduce_compare(build, rel, quant, lanes, lhs, rhs)
    /\ UNCHANGED RTM_HAS_ASSERT_CHECKS

\* the lane values of the is_finite tests: finite, +Inf, -Inf and NaN
FiniteTestLanes == {Rat(0), Frac(-5, 2), PosInf, NegInf, NaN}

\* one call of vector_is_finite(input) (lanes = 4) or vector_is_finite3(input)
VectorIsFinite ==
    /\ op = "idle"
    /\ \E lanes \in {3, 4}, input \in [1..4 -> FiniteTestLanes] :
           /\ op' = "vector_is_finite"
           /\ args' = [lanes |-> lanes, input |-> input]
           /\ ret' = IF lanes = 4 THEN vector_is_finite(input) ELSE vector_is_finite3(input)
    /\ UNCHANGED RTM_HAS_ASSERT_CHECKS

\* inputs of vector_normalize3 whose squared 3D length is 25, 9, 0, +Inf and
\* NaN, each with the w lanes of NormalizeW
NormalizeInputs3 ==
    { <<Rat(3), Rat(4), Rat(0)>>, <<Rat(1), Rat(-2), Rat(2)>>, <<Rat(0), Rat(0), Rat(0)>>,
      <<Frac(1, 2), Rat(0), Rat(0)>>, <<PosInf, Rat(0), Rat(1)>>, <<NaN, Rat(0), Rat(0)>> }

NormalizeW == {Rat(0), Rat(7), NaN, PosInf}

\* one call vector_normalize3(input, fallback, threshold)
VectorNormalize3 ==
    /\ op = "idle"
    /\ \E v \in NormalizeInputs3, w \in NormalizeW,
          fallback \in {vector_zero, vector_set(Rat(1), Rat(2), Rat(3), Rat(4))},
          threshold \in {Rat(0), Frac(1, 4), Rat(9), Rat(25), NaN} :
           /\ op' = "vector_normalize3"
           /\ args' = [input |-> vector_set(v[1], v[2], v[3], w), fallback |-> fallback,
                       threshold |-> threshold]
           /\ ret' = vector_normalize3(vector_set(v[1], v[2], v[3], w), fallback, threshold)
    /\ UNCHANGED RTM_HAS_ASSERT_CHECKS

\* lanes at distance 1, 1, 2 and NaN from the lanes of zero
NearEqualLanes == {Rat(1), Rat(-1), Rat(2), NaN}

\* one call of vector_{all,any}_near_equal[3](lhs, rhs, threshold)
VectorNearEqual ==
    /\ op = "idle"
    /\ \E build \in Builds, quant \in {"all", "any"}, lanes \in {3, 4},
          lhs \in {vector_zero, vector_set(Rat(2), Rat(0), Rat(3), PosInf)},
          rhs \in [1..4 -> NearEqualLanes],
          threshold \in {Rat(1), Frac(9999, 10000), Frac(10001, 10000)} :
           /\ op' = "vector_near_equal"
           /\ args' = [build |-> build, quant |-> quant, lanes |-> lanes,
                       lhs |-> lhs, rhs |-> rhs, threshold |-> threshold]
           /\ ret' = vector_near_equal(build, quant, lanes, lhs, rhs, threshold)
    /\ UNCHANGED RTM_HAS_ASSERT_CHECKS

\* vector_unaligned_write(input, output): the four floats at output afterwards
vector_unaligned_write(input, output) ==
    [[[[output EXCEPT ![1] = vector_get_x(input)]
                EXCEPT ![2] = vector_get_y(input)]
                EXCEPT ![3] = vector_get_z(input)]
                EXCEPT ![4] = vector_get_w(input)]

\* vector_unaligned_write3 that stores the w lane too
vector_unaligned_write3_four_lanes(input, output) ==
    [[[[output EXCEPT ![1] = vector_get_x(input)]
                EXCEPT ![2] = vector_get_y(input)]
                EXCEPT ![3] = vector_get_z(input)]
                EXCEPT ![4] = vector_get_w(input)]

\* vector_unaligned_write3(input, output): the four floats at output afterwards
vector_unaligned_write3(input, output) ==
    [[[output EXCEPT ![1] = vector_get_x(input)]
               EXCEPT ![2] = vector_get_y(input)]
               EXCEPT ![3] = vector_get_z(input)]

\* vector_unaligned_load3(input): input points at three floats at least
vector_unaligned_load3(input) == vector_set(input[1], input[2], input[3], Rat(0))

\* number of writes to the same four floats that are followed
MaxWrites == 3

\* test_value0, test_value1 and a third vector: vectors written, and contents
\* of the four floats before the first write
WriteValues ==
    { vector_set(Rat(2), Frac(934, 100), Frac(-5412, 100), Rat(6000)),
      vector_set(Frac(3, 4), Frac(-452, 100), Frac(4468, 100), Rat(-54225)),
      vector_set(Rat(5), Rat(6), Rat(7), Rat(8)) }

\* vector_unaligned_write(input, &out[0]): args.output is out before the call,
\* ret is out after it, args.last4 the vector of the most recent four-float
\* write (<<>> when there was none), args.count the number of writes so far
VectorUnalignedWrite ==
    /\ op \in {"idle", "vector_unaligned_write", "vector_unaligned_write3"}
    /\ op # "idle" => args.count < MaxWrites
    /\ \E input \in WriteValues, output \in IF op = "idle" THEN WriteValues ELSE {ret} :
           /\ op' = "vector_unaligned_write"
           /\ args' = [input |-> input, output |-> output, last4 |-> input,
                       count |-> IF op = "idle" THEN 1 ELSE args.count + 1]
           /\ ret' = vector_unaligned_write(input, output)
    /\ UNCHANGED RTM_HAS_ASSERT_CHECKS

\* vector_unaligned_write3(input, &out[0])
VectorUnalignedWrite3 ==
    /\ op \in {"idle", "vector_unaligned_write", "vector_unaligned_write3"}
    /\ op # "idle" => args.count < MaxWrites
    /\ \E input \in WriteValues, output \in IF op = "idle" THEN WriteValues ELSE {ret} :
           /\ op' = "vector_unaligned_write3"
           /\ args' = [input |-> input, output |-> output,
                       last4 |-> IF op = "idle" THEN <<>> ELSE args.last4,
                       count |-> IF op = "idle" THEN 1 ELSE args.count + 1]
           /\ ret' = vector_unaligned_write3(input, output)
    /\ UNCHANGED RTM_HAS_ASSERT_CHECKS

\* vector_unaligned_load3(&out[0]) after a write
VectorUnalignedLoad3 ==
    /\ op \in {"vector_unaligned_write", "vector_unaligned_write3"}
    /\ op' = "vector_unaligned_load3"
    /\ args' = [input |-> ret]
    /\ ret' = vector_unaligned_load3(ret)
    /\ UNCHANGED RTM_HAS_ASSERT_CHECKS

\* _mm_and_ps: bitwise AND of the four lanes, each four little-endian bytes
mm_and_ps(a, b) == [i \in 1..4 |-> BitAnd32(a[i], b[i])]

\* _mm_andnot_ps: (NOT a) AND b
mm_andnot_ps(a, b) == [i \in 1..4 |-> [k \in 1..4 |-> b[i][k] - BitAnd(a[i][k], b[i][k])]]

\* _mm_or_ps: bitwise OR
mm_or_ps(a, b) == [i \in 1..4 |-> [k \in 1..4 |-> a[i][k] + b[i][k] - BitAnd(a[i][k], b[i][k])]]

\* rtm_impl::select on one lane: mask != 0 ? if_true : if_false
select(mask, if_true, if_false) == IF mask # <<0, 0, 0, 0>> THEN if_true ELSE if_false

\* vector_select; vbslq_f32 takes the bits of if_true where the mask has a 1
\* and those of if_false elsewhere
vector_select(build, mask, if_true, if_false) ==
    IF build = "RTM_SSE2_INTRINSICS"
        THEN mm_or_ps(mm_andnot_ps(mask, if_false), mm_and_ps(if_true, mask))
    ELSE IF build = "RTM_NEON_INTRINSICS"
        THEN mm_or_ps(mm_and_ps(mask, if_true), mm_andnot_ps(mask, if_false))
    ELSE [i \in 1..4 |-> select(mask[i], if_true[i], if_false[i])]

\* vector_select(mask, if_true, if_false): the mask lanes are all ones, all
\* zeros (what the comparisons return), 0x0000FFFF or the float 1.0; the value
\* lanes are the floats 1, 2, 3, -2 and 4, 5, 6, -5 or the reverse
VectorSelect ==
    /\ op = "idle"
    /\ op' = "vector_select"
    /\ \E build \in Builds,
          mask \in [1..4 -> {<<255, 255, 255, 255>>, <<0, 0, 0, 0>>, <<255, 255, 0, 0>>, <<0, 0, 128, 63>>}],
          swap \in BOOLEAN :
           LET v0 == << <<0, 0, 128, 63>>, <<0, 0, 0, 64>>, <<0, 0, 64, 64>>, <<0, 0, 0, 192>> >>
               v1 == << <<0, 0, 128, 64>>, <<0, 0, 160, 64>>, <<0, 0, 192, 64>>, <<0, 0, 160, 192>> >>
           IN /\ args' = [build |-> build, mask |-> mask,
                          if_true |-> IF swap THEN v1 ELSE v0,
                          if_false |-> IF swap THEN v0 ELSE v1]
              /\ ret' = vector_select(build, mask, args'.if_true, args'.if_false)
    /\ UNCHANGED RTM_HAS_ASSERT_CHECKS

NextVector ==
    \/ VectorMix
    \/ VectorSelect
    \/ VectorNormalize3
    \/ VectorUnalignedWrite
    \/ VectorUnalignedWrite3
    \/ VectorUnalignedLoad3
    \/ VectorCompare
    \/ VectorIsFinite
    \/ VectorNearEqual

SpecVector == Init /\ [][NextVector]_vars

\* the calls of the near-equal reductions alone
SpecNearEqual == Init /\ [][VectorNearEqual]_vars

\* C12: for each of the 8^4 selector combinations and every input pair, output
\* lane k of vector_mix is lane (ck mod 4) of input0 when ck is one of x, y, z,
\* w and of input1 when ck is one of a, b, c, d; every SSE2 path (shuffles,
\* unpacklo, unpackhi) returns what the per-lane path returns.
C12_MixSelectsLanes ==
    op = "vector_mix" =>
        /\ \A k \in 1..4 :
               ret[k] = IF args.comp[k] \in {mix4.x, mix4.y, mix4.z, mix4.w}
                            THEN args.input0[(args.comp[k] % 4) + 1]
                            ELSE args.input1[(args.comp[k] % 4) + 1]
        /\ ret = vector_mix(args.comp[1], args.comp[2], args.comp[3], args.comp[4],
                            args.input0, args.input1)

\* the SSE2 shuffle with the operands exchanged has run and its result is not
\* what the shuffle of (input0, input1) would have given
C12_Witness ==
    /\ op = "vector_mix"
    /\ args.build = "RTM_SSE2_INTRINSICS"
    /\ args.comp = <<mix4.d, mix4.a, mix4.y, mix4.z>>
    /\ ret = <<args.input1[4], args.input1[1], args.input0[2], args.input0[3]>>
    /\ ret # <<args.input0[4], args.input0[1], args.input1[2], args.input1[3]>>

\* C13: for each relation R of <, <=, >=: vector_all_R is true iff R holds in
\* all four lanes, vector_any_R iff R holds in at least one of the four lanes;
\* the '3' variants decide the same over lanes x, y, z and do not depend on the
\* w lanes; the scalar, SSE2 movemask and NEON byte-zip paths return the same
\* boolean.
C13_ReductionsDecideLanes ==
    op = "vector_compare" =>
        /\ ret <=> IF args.quant = "all"
                       THEN \A i \in 1..args.lanes : scalar_compare(args.rel, args.lhs[i], args.rhs[i])
                       ELSE \E i \in 1..args.lanes : scalar_compare(args.rel, args.lhs[i], args.rhs[i])
        /\ args.lanes = 3 =>
               \A lw \in CompareLanes, rw \in CompareLanes :
                   ret = vector_reduce_compare(args.build, args.rel, args.quant, 3,
                                               [args.lhs EXCEPT ![4] = lw], [args.rhs EXCEPT ![4] = rw])
        /\ \A build \in Builds :
               ret = vector_reduce_compare(build, args.rel, args.quant, args.lanes, args.lhs, args.rhs)

\* the NEON path of vector_all_less_equal3 has answered TRUE although the
\* relation fails in the w lane, where the four-lane reduction answers FALSE
C13_Witness ==
    /\ op = "vector_compare"
    /\ args.build = "RTM_NEON_INTRINSICS"
    /\ args.rel = "less_equal" /\ args.quant = "all" /\ args.lanes = 3
    /\ ~scalar_compare("less_equal", args.lhs[4], args.rhs[4])
    /\ args.lhs[1] # args.rhs[1]
    /\ ret = TRUE
    /\ ~vector_reduce_compare("RTM_NEON_INTRINSICS", "less_equal", "all", 4, args.lhs, args.rhs)

\* C14: vector_is_finite(v) is true iff all four lanes of v are neither NaN nor
\* +Inf nor -Inf; vector_is_finite3(v) is true iff lanes x, y, z are, and a NaN
\* or an Inf in the w lane does not change its answer.
C14_VectorIsFiniteLanes ==
    op = "vector_is_finite" =>
        /\ ret <=> \A i \in 1..args.lanes : args.input[i] \notin {NaN, PosInf, NegInf}
        /\ args.lanes = 3 =>
               \A w \in FiniteTestLanes : vector_is_finite3([args.input EXCEPT ![4] = w]) = ret

\* vector_is_finite3 has answered TRUE on a vector whose w lane is NaN
C14_Witness ==
    /\ op = "vector_is_finite"
    /\ args.lanes = 3
    /\ args.input[4] = NaN
    /\ ret = TRUE
    /\ ~vector_is_finite(args.input)

\* C15 (amended): vector_normalize3(v, fallback, threshold) returns v multiplied
\* by the reciprocal square root of its squared 3D length exactly when the
\* comparison "squared length >= threshold" holds (equality included), and
\* fallback unchanged in all four lanes otherwise, which includes a NaN squared
\* length or a NaN threshold; the w lane of v never influences the branch.
C15_NormalizeFallbackUnlessAtLeastThreshold ==
    op = "vector_normalize3" =>
        \A w \in NormalizeW \cup {args.input[4]} :
            LET v == [args.input EXCEPT ![4] = w]
                r == IF w = args.input[4] THEN ret
                     ELSE vector_normalize3(v, args.fallback, args.threshold)
            IN r = IF scalar_compare("greater_equal", vector_length_squared3(args.input), args.threshold)
                       THEN vector_mul_s(v, scalar_sqrt_reciprocal(vector_length_squared3(args.input)))
                       ELSE args.fallback

\* a vector with a NaN lane, whose squared length is NaN and so not below the
\* threshold, has been answered with the fallback, all four lanes of it
C15_Witness ==
    /\ op = "vector_normalize3"
    /\ vector_length_squared3(args.input) = NaN
    /\ ~scalar_compare("less_than", vector_length_squared3(args.input), args.threshold)
    /\ args.threshold = Rat(9)
    /\ args.fallback = vector_set(Rat(1), Rat(2), Rat(3), Rat(4))
    /\ ret = args.fallback

\* C15 as stated: the fallback is returned exactly when the squared 3D length
\* is strictly below the threshold, the scaled vector otherwise.
C15_FallbackExactlyWhenBelowThreshold ==
    op = "vector_normalize3" =>
        ret = IF scalar_compare("less_than", vector_length_squared3(args.input), args.threshold)
                  THEN args.fallback
                  ELSE vector_mul_s(args.input, scalar_sqrt_reciprocal(vector_length_squared3(args.input)))

---------------------------------------------------------------------------
(* Properties of the VQM setters                                           *)

\* C17: vqm_set_rotation(T, r) and vqm_set_translation(T, v) return a new VQM
\* in which only the named field is replaced: vqm_get_rotation /
\* vqm_get_translation of the result is exactly r / v, every other field
\* equals that of T, and T itself is not modified: the transform a chained call
\* is given is still, after the call, the one the previous call returned.
C17_SettersReplaceOneField ==
    /\ [](/\ op = "vqm_set_rotation" =>
                /\ vqm_get_rotation(ret) = args.rotation
                /\ vqm_get_translation(ret) = vqm_get_translation(args.qvm)
                /\ <<ret.x_axis, ret.y_axis, ret.z_axis>>
                       = <<args.qvm.x_axis, args.qvm.y_axis, args.qvm.z_axis>>
          /\ op \in {"vqm_set_translation", "vqm_set_rotation/vqm_set_translation"} =>
                /\ vqm_get_translation(ret) = args.translation
                /\ vqm_get_rotation(ret) = vqm_get_rotation(args.qvm)
                /\ <<ret.x_axis, ret.y_axis, ret.z_axis>>
                       = <<args.qvm.x_axis, args.qvm.y_axis, args.qvm.z_axis>>)
    /\ [][op' = "vqm_set_rotation/vqm_set_translation" => args'.qvm = ret]_vars

\* a sheared transform has been given another rotation and then a translation
\* with a non-zero w lane, and both are read back
C17_Witness ==
    /\ op = "vqm_set_rotation/vqm_set_translation"
    /\ HasShear(args.qvm)
    /\ args.translation[4] = Rat(4)
    /\ vqm_get_translation(ret) # vqm_get_translation(args.qvm)
    /\ vqm_get_rotation(ret) \notin {qG, qI}

\* C18: qvv_normalize(T) changes only the rotation: the result's translation,
\* x_axis, y_axis and z_axis are exactly those of T, all four lanes, and its
\* rotation is quat_normalize(T.rotation).
C18_NormalizeChangesRotationOnly ==
    op = "qvv_normalize" =>
        /\ \A f \in {"translation", "x_axis", "y_axis", "z_axis"} :
               \A i \in 1..4 : ret[f][i] = args.input[f][i]
        /\ ret.rotation = quat_normalize(args.input.rotation)

\* a sheared transform with non-zero w lanes and a rotation of length 5 has
\* been normalised: the rotation has changed and is of unit length
C18_Witness ==
    /\ op = "qvv_normalize"
    /\ HasShear(args.input)
    /\ args.input.translation[4] = Rat(7)
    /\ args.input.rotation = vector_set(Rat(1), Rat(2), Rat(2), Rat(4))
    /\ ret.rotation = vector_set(Frac(1, 5), Frac(2, 5), Frac(2, 5), Frac(4, 5))
    /\ quat_is_normalized(ret.rotation)

---------------------------------------------------------------------------
(* Properties of the unaligned writes and loads                            *)

\* C19: vector_unaligned_write3(v, out) writes exactly out[0], out[1], out[2]
\* (v.x, v.y, v.z) and leaves out[3] with the value it held before the call,
\* vector_unaligned_write(v, out) writes all four; after any sequence of
\* write / write3 calls out[3] holds the w of the most recent four-float write;
\* vector_unaligned_load3(out) returns (out[0], out[1], out[2], 0).
C19_Write3LeavesFourthFloat ==
    /\ op = "vector_unaligned_write3" =>
           /\ <<ret[1], ret[2], ret[3]>> = <<args.input[1], args.input[2], args.input[3]>>
           /\ ret[4] = args.output[4]
    /\ op = "vector_unaligned_write" =>
           ret = <<args.input[1], args.input[2], args.input[3], args.input[4]>>
    /\ (op \in {"vector_unaligned_write", "vector_unaligned_write3"} /\ args.last4 # <<>>) =>
           ret[4] = args.last4[4]
    /\ op = "vector_unaligned_load3" =>
           ret = <<args.input[1], args.input[2], args.input[3], Rat(0)>>

\* a four-float write followed by two three-float writes of other vectors:
\* out[3] is still the w of the first vector, out[0..2] are the last vector's
C19_Witness ==
    /\ op = "vector_unaligned_write3"
    /\ args.count = 3
    /\ args.last4 # <<>>
    /\ args.last4[4] # args.input[4]
    /\ args.output[1] # args.last4[1]
    /\ args.output[1] # args.input[1]
    /\ ret[4] = args.last4[4]
    /\ ret[1] = args.input[1]

---------------------------------------------------------------------------
(* Shear of a product                                                      *)

\* C20 (amended): shear arises from the rotation of the left operand: if A and
\* B are both built by vqm_set (diagonal scale/shear) and the rotation of A is
\* the identity, then vqm_mul(A, B) has a diagonal scale/shear matrix, whatever
\* the rotation of B; the rotation of B never enters the scale/shear of the
\* product.
C20_DiagonalWhenLhsUnrotated ==
    (op = "vqm_mul" /\ ~HasShear(args.lhs) /\ ~HasShear(args.rhs)) =>
        /\ args.lhs.rotation = quat_identity => ~HasShear(ret)
        /\ \A q \in Rotations :
               LET other == vqm_mul(args.lhs, vqm_set_rotation(args.rhs, q))
               IN <<other.x_axis, other.y_axis, other.z_axis>> = <<ret.x_axis, ret.y_axis, ret.z_axis>>

\* two scaled transforms with different rotations, the left one unrotated,
\* have a product without shear and with the scales multiplied
C20_Witness ==
    /\ op = "vqm_mul"
    /\ ~HasShear(args.lhs) /\ ~HasShear(args.rhs)
    /\ args.lhs.rotation = quat_identity
    /\ args.rhs.rotation = qZ
    /\ vqm_get_scale(args.lhs) = sNeg1
    /\ vqm_get_scale(args.rhs) = sPos
    /\ ~HasShear(ret)
    /\ vqm_get_scale(ret) = vector_set3(Rat(-4), Rat(9), Rat(16))

\* C20 as stated: two transforms built by vqm_set with the same rotation have
\* a product whose scale/shear matrix is diagonal.
C20_DiagonalWhenSameRotation ==
    (op = "vqm_mul" /\ ~HasShear(args.lhs) /\ ~HasShear(args.rhs)
        /\ args.lhs.rotation = args.rhs.rotation) => ~HasShear(ret)

\* C21: transforming a point (or a vector) by the product vqm_mul(A, B) gives,
\* on x, y, z, the same result as transforming it by A and then by B, for
\* every A and B with unit rotations.
C21_PointTransformFollowsMul ==
    /\ (op = "vqm_mul/vqm_mul_point3"
        /\ quat_is_normalized(args.lhs.rotation) /\ quat_is_normalized(args.rhs.rotation))
           => vector_equal3(ret, vqm_mul_point3(vqm_mul_point3(args.point, args.lhs), args.rhs))
    /\ (op = "vqm_mul/vqm_mul_vector3"
        /\ quat_is_normalized(args.lhs.rotation) /\ quat_is_normalized(args.rhs.rotation))
           => vector_equal3(ret, vqm_mul_vector3(vqm_mul_vector3(args.point, args.lhs), args.rhs))

\* a point moved by a sheared transform times a translated, rotated, negatively
\* scaled one: the translation of the left operand is itself transformed
C21_Witness ==
    /\ op = "vqm_mul/vqm_mul_point3"
    /\ HasShear(args.lhs) /\ ~IsSingular(args.lhs)
    /\ HasNegativeScale(args.rhs)
    /\ args.lhs.rotation # args.rhs.rotation /\ args.rhs.rotation # qI
    /\ ~vector_equal3(args.lhs.translation, vector_zero)
    /\ ~vector_equal3(args.rhs.translation, vector_zero)
    /\ ~vector_equal3(args.point, vector_zero)
    /\ ~vector_equal3(ret, vqm_mul_vector3(args.point, vqm_mul(args.lhs, args.rhs)))

\* C22: for every mask lane value, vector_select returns the whole lane of
\* if_true where the mask lane is non-zero and the whole lane of if_false where
\* it is zero, in every build (so the bitwise builds agree with the scalar one).
C22_SelectWholeLaneForAnyMask ==
    op = "vector_select" =>
        \A i \in 1..4 :
            ret[i] = IF args.mask[i] # <<0, 0, 0, 0>> THEN args.if_true[i] ELSE args.if_false[i]

\* C23: matrix_remove_scale returns the w_axis of its input unchanged, and every
\* axis row whose squared 3D length is below the default threshold of
\* vector_normalize3 (a zero axis in particular) unchanged as well: nothing is
\* divided by zero and nothing is recovered from the other axes.
C23_RemoveScaleKeepsShortAxes ==
    op = "matrix_remove_scale" =>
        /\ ret.w_axis = args.input.w_axis
        /\ \A axis \in 1..3 :
               scalar_compare("less_than", vector_length_squared3(matrix_get_axis(args.input, axis)),
                              Frac(1, 100000000))
                   => matrix_get_axis(ret, axis) = matrix_get_axis(args.input, axis)

\* a zero x axis and a non-zero y axis below the threshold are kept, next to a
\* z axis of length 3 that is normalized
C23_Witness ==
    /\ op = "matrix_remove_scale"
    /\ args.input.x_axis = vector_zero /\ ret.x_axis = vector_zero
    /\ args.input.y_axis = vector_set3(Frac(1, 20000), Rat(0), Rat(0)) /\ ret.y_axis = args.input.y_axis
    /\ args.input.z_axis = vector_set3(Rat(1), Rat(2), Rat(-2))
    /\ ret.z_axis = vector_set3(Frac(1, 3), Frac(2, 3), Frac(-2, 3))
    /\ ret.w_axis = vector_set(Rat(1), Rat(-2), Rat(3), Rat(1))

\* C24: matrix_get_axis returns the x_axis, y_axis, z_axis or w_axis row of its
\* input for axis4 x, y, z, w, and for an out-of-range axis value, with the
\* assertions compiled out, the x_axis; whatever it returns is one of the four
\* rows of the input, and only a build with assertions stops an out-of-range call.
C24_GetAxisReturnsARow ==
    /\ op = "matrix_get_axis" =>
           /\ ret \in {args.input.x_axis, args.input.y_axis, args.input.z_axis, args.input.w_axis}
           /\ args.axis = 1 => ret = args.input.x_axis
           /\ args.axis = 2 => ret = args.input.y_axis
           /\ args.axis = 3 => ret = args.input.z_axis
           /\ args.axis = 4 => ret = args.input.w_axis
           /\ args.axis \notin 1..4 => (~RTM_HAS_ASSERT_CHECKS /\ ret = args.input.x_axis)
    /\ op = "matrix_get_axis/RTM_ASSERT" => (RTM_HAS_ASSERT_CHECKS /\ args.axis \notin 1..4)

\* an out-of-range axis in a build without assertions, on a matrix whose four
\* rows are pairwise different
C24_Witness ==
    /\ op = "matrix_get_axis"
    /\ ~RTM_HAS_ASSERT_CHECKS
    /\ args.axis = 6
    /\ ret = args.input.x_axis
    /\ Cardinality({args.input.x_axis, args.input.y_axis, args.input.z_axis, args.input.w_axis}) = 4

\* C25: vqm_set_scale(T, s) replaces exactly x_axis.x, y_axis.y and z_axis.z by
\* s.x, s.y and s.z and leaves every other lane of the axes, the rotation and the
\* translation as they are in T, so existing shear is kept; vqm_get_scale of
\* the result equals s on x, y, z, for sheared T as well.
C25_SetScaleReplacesDiagonalOnly ==
    op = "vqm_set_scale" =>
        /\ ret.rotation = args.qvm.rotation
        /\ ret.translation = args.qvm.translation
        /\ ret.x_axis = [args.qvm.x_axis EXCEPT ![1] = args.scale[1]]
        /\ ret.y_axis = [args.qvm.y_axis EXCEPT ![2] = args.scale[2]]
        /\ ret.z_axis = [args.qvm.z_axis EXCEPT ![3] = args.scale[3]]
        /\ vector_equal3(vqm_get_scale(ret), args.scale)

\* a sheared, rotated, translated transform is given a new diagonal; the
\* scale's w lane is not zero
C25_Witness ==
    /\ op = "vqm_set_scale"
    /\ HasShear(args.qvm) /\ HasShear(ret)
    /\ args.qvm.rotation # qI
    /\ ~vector_equal3(args.qvm.translation, vector_zero)
    /\ ~vector_equal3(vqm_get_scale(args.qvm), args.scale)
    /\ args.scale = vector_set(Rat(4), Rat(5), Rat(6), Rat(9))
    /\ ret.x_axis[1] = Rat(4) /\ ret.y_axis[2] = Rat(5) /\ ret.z_axis[3] = Rat(6)

\* C26: as the comments on the functions say, vector_all_near_equal(lhs, rhs, t)
\* is true exactly when |lhs_i - rhs_i| < t, strictly, in all four lanes, and
\* vector_all_near_equal3, vector_any_near_equal and vector_any_near_equal3 use
\* the same strict comparison over their lanes.
C26_NearEqualStrictAsDocumented ==
    op = "vector_near_equal" =>
        LET diff(i) == scalar_sub(args.lhs[i], args.rhs[i])
            dist(i) == IF diff(i)[1] < 0 THEN scalar_neg(diff(i)) ELSE diff(i)
            strictly_near(i) == scalar_compare("less_than", dist(i), args.threshold)
        IN ret <=> IF args.quant = "all" THEN \A i \in 1..args.lanes : strictly_near(i)
                                         ELSE \E i \in 1..args.lanes : strictly_near(i)

\* C27: vqm_to_matrix returns a well-formed affine 3x4 matrix for every VQM
\* produced by vqm_identity, vqm_set (of a 3-component translation), vqm_mul or
\* vqm_inverse: the fourth lane of each axis row is 0 and the fourth lane of the
\* w_axis (translation) row is 1, as in the results of matrix_from_qvv.
C27_ToMatrixIsAffine ==
    op \in {"vqm_set/vqm_to_matrix", "vqm_mul/vqm_to_matrix", "vqm_inverse/vqm_to_matrix"} =>
        /\ ret.x_axis[4] = Rat(0)
        /\ ret.y_axis[4] = Rat(0)
        /\ ret.z_axis[4] = Rat(0)
        /\ ret.w_axis[4] = Rat(1)

\* C28: matrix_mul on 3x4 matrices preserves the affine invariant: when the
\* axis rows of lhs and rhs have fourth lane 0 and rhs.w_axis has fourth lane 1,
\* the product's axis rows have fourth lane 0 and its w_axis fourth lane 1,
\* whatever lhs.w_axis.w is; so a product of affine matrices multiplied by an
\* affine matrix again is affine.  (Lanes are finite.)
C28_MatrixMulPreservesAffine ==
    /\ (/\ op = "matrix_mul"
        /\ matrix_is_finite(args.lhs) /\ matrix_is_finite(args.rhs)
        /\ args.lhs.x_axis[4] = Rat(0) /\ args.lhs.y_axis[4] = Rat(0) /\ args.lhs.z_axis[4] = Rat(0)
        /\ IsAffine(args.rhs)) => IsAffine(ret)
    /\ (/\ op = "matrix_mul/matrix_mul"
        /\ IsAffine(args.lhs) /\ IsAffine(args.rhs) /\ IsAffine(args.third)) => IsAffine(ret)

\* the left operand's w_axis has fourth lane 5, the right operand is affine,
\* rotated and translated: the product is affine
C28_Witness ==
    /\ op = "matrix_mul"
    /\ args.lhs.w_axis[4] = Rat(5)
    /\ args.lhs.x_axis[4] = Rat(0) /\ args.lhs.y_axis[4] = Rat(0) /\ args.lhs.z_axis[4] = Rat(0)
    /\ IsAffine(args.rhs)
    /\ ~vector_equal3(args.rhs.w_axis, vector_zero)
    /\ args.rhs.x_axis[2] # Rat(0)
    /\ IsAffine(ret)

\* C29: the casts that widen a matrix3x3 agree.  For a matrix3x3 m whose axis
\* rows have fourth lane 0, matrix_cast(m) converted to matrix4x4 has the rows
\* of m and the fourth row (0, 0, 0, 1), which is what converting m to
\* matrix3x4 and that to matrix4x4 gives; and narrowing the matrix4x4 back to
\* matrix3x3 returns m.
C29_WideningCastsAgree ==
    /\ (/\ op = "matrix_cast"
        /\ args.src = "matrix3x3"
        /\ args.dst = "matrix4x4"
        /\ ~matrix_caster_asserts("matrix3x3", "matrix3x4", args.mtx))
       => /\ ret = matrix_caster("matrix3x4", "matrix4x4",
                                 matrix_caster("matrix3x3", "matrix3x4", args.mtx))
          /\ ret.x_axis = args.mtx.x_axis
          /\ ret.y_axis = args.mtx.y_axis
          /\ ret.z_axis = args.mtx.z_axis
          /\ ret.w_axis = vector_set(Rat(0), Rat(0), Rat(0), Rat(1))
    /\ (/\ op = "matrix_cast/matrix_cast"
        /\ args.src = "matrix3x3"
        /\ args.dst = "matrix4x4"
        /\ args.dst2 = "matrix3x3"
        /\ ~matrix_caster_asserts("matrix3x3", "matrix3x4", args.mtx))
       => ret = args.mtx

\* C30: vqm_inverse is an involution on its domain.  For a transform T with a
\* unit rotation and a non-singular scale/shear matrix,
\* vqm_inverse(vqm_inverse(T)) equals T on the rotation, on x, y, z of the
\* translation and on x, y, z of the three scale/shear axes.
C30_InverseIsInvolution ==
    (/\ op = "vqm_inverse/vqm_inverse"
     /\ quat_is_normalized(args.input.rotation)
     /\ ~IsSingular(args.input))
    => vqm_equal3(ret, args.input)

\* a rotated, translated transform with shear and a negative determinant has
\* been inverted twice
C30_Witness ==
    /\ op = "vqm_inverse/vqm_inverse"
    /\ quat_is_normalized(args.input.rotation)
    /\ ~IsSingular(args.input)
    /\ HasShear(args.input)
    /\ args.input.rotation \notin {qI, vector_neg(qI)}
    /\ ~vector_equal3(args.input.translation, vector_zero)
    /\ ~vqm_equal3(vqm_inverse(args.input), args.input)

===========================================================================
